---- MODULE Spec2Model ----
(***************************************************************************)
(* A model of the js-joda formatting core: the DateTimeFormatter facade     *)
(* (format, parse, parseUnresolved, toString), the DateTimeFormatterBuilder *)
(* that produces its printer/parser tree, and the tree's printer and        *)
(* parser.  Strings are TLA+ strings; positions are 0-based as in the       *)
(* JavaScript source.                                                       *)
(***************************************************************************)
EXTENDS Integers, Sequences, FiniteSets, TLC

VARIABLES
    active,     \* the builder: its stack of frames, innermost frame last
    calls,      \* the builder calls made so far, in order (history)
    berror,     \* what the last builder call threw, or NoError
    fmt,        \* the DateTimeFormatter returned by toFormatter, or NoFormatter
    parsePos,   \* the caller's ParsePosition object: index and errorIndex
    call,       \* the caller's last step: operation, arguments, state on entry
    ret         \* what the caller's last step returned or threw

vars == <<active, calls, berror, fmt, parsePos, call, ret>>

-----------------------------------------------------------------------------
(* Bounds of the model. *)

\* The number of builder calls explored.
MaxCalls == 4
\* The widest reduced value explored.
MaxReducedWidth == 2
\* The most nodes before an optional section, and the most inside it.
MaxPart == 2
\* The largest index a caller-made ParsePosition starts at.
MaxStart == 1

-----------------------------------------------------------------------------
(* Text helpers. *)

\* text.charAt(i), i counted from 0; "" beyond the end.
CharAt(text, i) == IF i >= 0 /\ i < Len(text) THEN SubSeq(text, i + 1, i + 1) ELSE ""

\* text.substring(from, to), both counted from 0.
Substring(text, from, to) == SubSeq(text, from + 1, to)

DigitChars == {"0", "1", "2", "3", "4", "5", "6", "7", "8", "9"}

DigitVal(c) ==
    CASE c = "0" -> 0 [] c = "1" -> 1 [] c = "2" -> 2 [] c = "3" -> 3
      [] c = "4" -> 4 [] c = "5" -> 5 [] c = "6" -> 6 [] c = "7" -> 7
      [] c = "8" -> 8 [] c = "9" -> 9

RECURSIVE Pow10(_)
Pow10(n) == IF n <= 0 THEN 1 ELSE 10 * Pow10(n - 1)

\* The length of the digit run of text that starts at index p, counted up to limit.
RECURSIVE DigitRun(_, _, _)
DigitRun(text, p, limit) ==
    IF limit <= 0 \/ CharAt(text, p) \notin DigitChars THEN 0
    ELSE 1 + DigitRun(text, p + 1, limit - 1)

\* The unsigned number written by the n digits of text that start at index p.
RECURSIVE DigitsValue(_, _, _)
DigitsValue(text, p, n) ==
    IF n <= 0 THEN 0
    ELSE 10 * DigitsValue(text, p, n - 1) + DigitVal(CharAt(text, p + n - 1))

\* n zeros.
RECURSIVE Zeros(_)
Zeros(n) == IF n <= 0 THEN "" ELSE "0" \o Zeros(n - 1)

\* The decimal digits of v >= 0, left-padded with zeros to at least width.
ZeroPad(v, width) == Zeros(width - Len(ToString(v))) \o ToString(v)

\* Whether text ends with suffix.
EndsWith(text, suffix) ==
    /\ Len(suffix) <= Len(text)
    /\ SubSeq(text, Len(text) - Len(suffix) + 1, Len(text)) = suffix

\* Whether text starts with prefix.
StartsWith(text, prefix) ==
    /\ Len(prefix) <= Len(text)
    /\ SubSeq(text, 1, Len(prefix)) = prefix

\* The bitwise complement ~n of the source, on the index range of the model.
Complement(n) == -n - 1

-----------------------------------------------------------------------------
(* The field registry: the fields of the model and their value ranges. *)

Fields == {"Year", "MonthOfYear", "DayOfMonth"}

FieldMin(f) == CASE f = "Year" -> -999999999 [] f = "MonthOfYear" -> 1 [] f = "DayOfMonth" -> 1
FieldMax(f) == CASE f = "Year" -> 999999999 [] f = "MonthOfYear" -> 12 [] f = "DayOfMonth" -> 31

\* A set of field bindings: a function from the bound fields to their values.
NoBindings == [f \in {} |-> 0]

Bind(parsed, f, v) == [g \in DOMAIN parsed \cup {f} |-> IF g = f THEN v ELSE parsed[g]]

-----------------------------------------------------------------------------
(* Printer/parser nodes (spec section 3).  Every node is a record with a    *)
(* kind; a Value node carries the subsequent width the builder gave it: the *)
(* total width of the fixed-width nodes that directly follow it.            *)

MaxValueWidth == 15

ValueNode(field, minWidth, maxWidth, signStyle) ==
    [kind |-> "Value", field |-> field, minWidth |-> minWidth, maxWidth |-> maxWidth,
     signStyle |-> signStyle, subsequentWidth |-> 0]

ReducedNode(field, width, maxWidth, baseValue) ==
    [kind |-> "ReducedValue", field |-> field, minWidth |-> width, maxWidth |-> maxWidth,
     signStyle |-> "NOT_NEGATIVE", baseValue |-> baseValue]

LiteralNode(literal) == [kind |-> "Literal", literal |-> literal]

CompositeNode(printerParsers, optional) ==
    [kind |-> "Composite", printerParsers |-> printerParsers, optional |-> optional]

\* Pad(inner, padWidth, padChar): one inner node, printed at least padWidth wide.
PadNode(inner, padWidth, padChar) ==
    [kind |-> "Pad", inner |-> inner, padWidth |-> padWidth, padChar |-> padChar]

\* Fraction(field, minWidth, maxWidth, decimalPoint)
FractionNode(field, minWidth, maxWidth, decimalPoint) ==
    [kind |-> "Fraction", field |-> field, minWidth |-> minWidth, maxWidth |-> maxWidth,
     decimalPoint |-> decimalPoint]

\* Offset(pattern, noOffsetText)
OffsetNode(pattern, noOffsetText) ==
    [kind |-> "Offset", pattern |-> pattern, noOffsetText |-> noOffsetText]

ZoneIdNode == [kind |-> "ZoneId"]

IsNumberNode(node) == node.kind \in {"Value", "ReducedValue"}

\* Mutant: only a Value is fixed-width, a ReducedValue never.
IsFixedWidth_ValueOnly(node) ==
    node.kind = "Value" /\ node.minWidth = node.maxWidth /\ node.signStyle = "NOT_NEGATIVE"

\* A node that takes exactly its declared width of digits and no sign.
IsFixedWidth(node) ==
    IsNumberNode(node) /\ node.minWidth = node.maxWidth /\ node.signStyle = "NOT_NEGATIVE"

-----------------------------------------------------------------------------
(* The parser (spec section 4.4): each node takes the bindings so far, the  *)
(* text and a position, and gives the new position, or the complement of    *)
(* the error position, and the new bindings.                                *)

ParseResult(pos, parsed) == [pos |-> pos, parsed |-> parsed]

\* Duplicate field: a differing value for a bound field is an error at errorPos.
SetParsedField(parsed, field, value, errorPos, successPos) ==
    IF field \in DOMAIN parsed /\ parsed[field] # value
    THEN ParseResult(Complement(errorPos), parsed)
    ELSE ParseResult(successPos, Bind(parsed, field, value))

\* Whether a Value of this sign style takes the sign character c before its digits.
AcceptsSign(signStyle, c) ==
    \/ c = "-" /\ signStyle \in {"NORMAL", "ALWAYS", "EXCEEDS_PAD"}
    \/ c = "+" /\ signStyle \in {"ALWAYS", "EXCEEDS_PAD"}

\* Value: adjacent-value parsing.  F is the width reserved for the fixed-width
\* followers; the digit run is scanned up to maxWidth + F; the node takes L - F.
ParseValue(node, parsed, text, p) ==
    LET signed == AcceptsSign(node.signStyle, CharAt(text, p))
        q      == IF signed THEN p + 1 ELSE p
        F      == node.subsequentWidth
        L      == DigitRun(text, q, node.maxWidth + F)
        n      == L - F
        v      == DigitsValue(text, q, n)
    IN  IF L < node.minWidth + F \/ (node.signStyle = "ALWAYS" /\ ~signed)
        THEN ParseResult(Complement(p), parsed)
        ELSE SetParsedField(parsed, node.field,
                            IF signed /\ CharAt(text, p) = "-" THEN -v ELSE v, p, q + n)

\* Mutant: the candidate in the base cycle is taken as it is.
ReducedWindow_NoWrap(d, width, baseValue) ==
    baseValue - (baseValue % Pow10(width)) + d

\* Reduced value: the width digits d are placed in [base, base + 10^width).
ReducedWindow(d, width, baseValue) ==
    LET range == Pow10(width)
        cycle == baseValue - (baseValue % range)
        v     == cycle + d
    IN  IF v < baseValue THEN v + range ELSE v

ParseReduced(node, parsed, text, p) ==
    LET L == DigitRun(text, p, node.minWidth)
    IN  IF L < node.minWidth
        THEN ParseResult(Complement(p), parsed)
        ELSE SetParsedField(parsed, node.field,
                            ReducedWindow(DigitsValue(text, p, L), node.minWidth, node.baseValue),
                            p, p + L)

\* Literal: the text at p must be the literal (case-sensitive, the default).
ParseLiteral(node, parsed, text, p) ==
    IF p + Len(node.literal) <= Len(text)
       /\ Substring(text, p, p + Len(node.literal)) = node.literal
    THEN ParseResult(p + Len(node.literal), parsed)
    ELSE ParseResult(Complement(p), parsed)

RECURSIVE ParseNode(_, _, _, _)
RECURSIVE ParseSequence(_, _, _, _, _)

\* The nodes of a composite from the i-th on, in order, stopping at the first failure.
ParseSequence(nodes, i, parsed, text, pos) ==
    IF i > Len(nodes) THEN ParseResult(pos, parsed)
    ELSE LET r == ParseNode(nodes[i], parsed, text, pos)
         IN  IF r.pos < 0 THEN r ELSE ParseSequence(nodes, i + 1, r.parsed, text, r.pos)

\* Mutant: an optional composite that fails keeps what its nodes have bound.
ParseComposite_KeepsBindings(node, parsed, text, pos) ==
    LET r == ParseSequence(node.printerParsers, 1, parsed, text, pos)
    IN  IF node.optional /\ r.pos < 0 THEN ParseResult(pos, r.parsed) ELSE r

\* Composite: an optional composite that fails restores the bindings held on
\* entry and reports success at the entry position.
ParseComposite(node, parsed, text, pos) ==
    LET r == ParseSequence(node.printerParsers, 1, parsed, text, pos)
    IN  IF node.optional /\ r.pos < 0 THEN ParseResult(pos, parsed) ELSE r

ParseNode(node, parsed, text, pos) ==
    CASE node.kind = "Value"        -> ParseValue(node, parsed, text, pos)
      [] node.kind = "ReducedValue" -> ParseReduced(node, parsed, text, pos)
      [] node.kind = "Literal"      -> ParseLiteral(node, parsed, text, pos)
      [] node.kind = "Composite"    -> ParseComposite(node, parsed, text, pos)

-----------------------------------------------------------------------------
(* The printer (spec section 4.3): each node gives the characters it writes *)
(* for a temporal (a function from the fields it supports to their values), *)
(* or fails.                                                                *)

PrintResult(ok, out) == [ok |-> ok, out |-> out]

Abs(v) == IF v < 0 THEN -v ELSE v

PrintValue(node, temporal) ==
    IF node.field \notin DOMAIN temporal THEN PrintResult(FALSE, "")
    ELSE LET v      == temporal[node.field]
             digits == ZeroPad(Abs(v), node.minWidth)
             exceeds == Len(ToString(Abs(v))) > node.minWidth
             sign   == CASE node.signStyle = "NORMAL" -> IF v < 0 THEN "-" ELSE ""
                         [] node.signStyle = "ALWAYS" -> IF v < 0 THEN "-" ELSE "+"
                         [] node.signStyle = "EXCEEDS_PAD" ->
                                IF exceeds THEN (IF v < 0 THEN "-" ELSE "+") ELSE ""
                         [] OTHER -> ""
         IN  IF v < 0 /\ node.signStyle \in {"NEVER", "NOT_NEGATIVE"}
             THEN PrintResult(FALSE, "")
             ELSE PrintResult(TRUE, sign \o digits)

\* Reduced: the width low-order digits of value - baseValue, unsigned.
PrintReduced(node, temporal) ==
    IF node.field \notin DOMAIN temporal THEN PrintResult(FALSE, "")
    ELSE PrintResult(TRUE, ZeroPad(Abs(temporal[node.field] - node.baseValue) % Pow10(node.minWidth),
                                   node.minWidth))

RECURSIVE PrintNode(_, _)
RECURSIVE PrintSequence(_, _, _)

PrintSequence(nodes, i, temporal) ==
    IF i > Len(nodes) THEN PrintResult(TRUE, "")
    ELSE LET r == PrintNode(nodes[i], temporal)
         IN  IF ~r.ok THEN r
             ELSE LET rest == PrintSequence(nodes, i + 1, temporal)
                  IN  IF rest.ok THEN PrintResult(TRUE, r.out \o rest.out) ELSE rest

\* Composite: an optional composite whose interior cannot print writes nothing.
PrintComposite(node, temporal) ==
    LET r == PrintSequence(node.printerParsers, 1, temporal)
    IN  IF node.optional /\ ~r.ok THEN PrintResult(TRUE, "") ELSE r

PrintNode(node, temporal) ==
    CASE node.kind = "Value"        -> PrintValue(node, temporal)
      [] node.kind = "ReducedValue" -> PrintReduced(node, temporal)
      [] node.kind = "Literal"      -> PrintResult(TRUE, node.literal)
      [] node.kind = "Composite"    -> PrintComposite(node, temporal)

-----------------------------------------------------------------------------
(* The pretty-printed form of a node (spec section 4.6). *)

ValueToString(node) ==
    IF node.minWidth = 1 /\ node.maxWidth = MaxValueWidth /\ node.signStyle = "NORMAL"
    THEN "Value(" \o node.field \o ")"
    ELSE IF node.minWidth = node.maxWidth /\ node.signStyle = "NOT_NEGATIVE"
    THEN "Value(" \o node.field \o "," \o ToString(node.minWidth) \o ")"
    ELSE "Value(" \o node.field \o "," \o ToString(node.minWidth) \o ","
             \o ToString(node.maxWidth) \o "," \o node.signStyle \o ")"

\* The base is printed as the base date when the node was given one.
ReducedToString(node) ==
    "ReducedValue(" \o node.field \o "," \o ToString(node.minWidth) \o ","
        \o ToString(node.maxWidth) \o ","
        \o (IF "baseDate" \in DOMAIN node THEN node.baseDate ELSE ToString(node.baseValue))
        \o ")"

\* text with every apostrophe doubled.
RECURSIVE DoubleQuotes(_)
DoubleQuotes(text) ==
    IF text = "" THEN ""
    ELSE (IF CharAt(text, 0) = "'" THEN "''" ELSE CharAt(text, 0))
             \o DoubleQuotes(Substring(text, 1, Len(text)))

\* A literal in single quotes, its apostrophes doubled; the apostrophe alone is ''.
LiteralToString(node) ==
    IF node.literal = "'" THEN "''" ELSE "'" \o DoubleQuotes(node.literal) \o "'"

FractionToString(node) ==
    "Fraction(" \o node.field \o "," \o ToString(node.minWidth) \o ","
        \o ToString(node.maxWidth) \o ")"

OffsetToString(node) == "Offset(" \o node.pattern \o ",'" \o node.noOffsetText \o "')"

RECURSIVE NodeToString(_)

\* Pad(inner,width) and, for a pad character other than the space, Pad(inner,width,'char').
PadToString(node) ==
    "Pad(" \o NodeToString(node.inner) \o "," \o ToString(node.padWidth)
        \o (IF node.padChar = " " THEN "" ELSE ",'" \o node.padChar \o "'") \o ")"

RECURSIVE SequenceToString(_, _)

SequenceToString(nodes, i) ==
    IF i > Len(nodes) THEN ""
    ELSE NodeToString(nodes[i]) \o SequenceToString(nodes, i + 1)

CompositeToString(node) ==
    (IF node.optional THEN "[" ELSE "(")
        \o SequenceToString(node.printerParsers, 1)
        \o (IF node.optional THEN "]" ELSE ")")

NodeToString(node) ==
    CASE node.kind = "Value"        -> ValueToString(node)
      [] node.kind = "ReducedValue" -> ReducedToString(node)
      [] node.kind = "Literal"      -> LiteralToString(node)
      [] node.kind = "Composite"    -> CompositeToString(node)
      [] node.kind = "Pad"          -> PadToString(node)
      [] node.kind = "Fraction"     -> FractionToString(node)
      [] node.kind = "Offset"       -> OffsetToString(node)
      [] node.kind = "ZoneId"       -> "ZoneId()"

-----------------------------------------------------------------------------
(* The builder (spec section 4.1).  Its state is a stack of frames, the     *)
(* innermost last: the nodes appended to the frame, whether the frame is an *)
(* optional one, and valueParserIndex, the place in the frame of the active *)
(* variable-width Value that reserves digits for fixed-width followers      *)
(* (0: none), and the pad that padNext left for the next node of the frame  *)
(* (padNextWidth 0: none).                                                  *)

NoError == [type |-> "none"]

Frame(optional) ==
    [printerParsers |-> <<>>, optional |-> optional, valueParserIndex |-> 0,
     padNextWidth |-> 0, padNextChar |-> " "]

NewBuilder == <<Frame(FALSE)>>

Top(b) == b[Len(b)]

ReplaceTop(b, frame) == [b EXCEPT ![Len(b)] = frame]

BuilderResult(b, error) == [active |-> b, error |-> error]

\* The node as the frame takes it: inside the pad that padNext left, if any.
Padded(frame, node) ==
    IF frame.padNextWidth > 0
    THEN PadNode(node, frame.padNextWidth, frame.padNextChar)
    ELSE node

\* AppendInternal with a pad that stays pending after it has wrapped a node.
AppendInternal_KeepsPad(b, node) ==
    ReplaceTop(b, [Top(b) EXCEPT !.printerParsers = Append(@, Padded(Top(b), node)),
                                 !.valueParserIndex = 0])

\* Any node but a number: appended to the innermost frame, inside the pending
\* pad, which is used up; ends a group of adjacent values.
AppendInternal(b, node) ==
    ReplaceTop(b, [Top(b) EXCEPT !.printerParsers = Append(@, Padded(Top(b), node)),
                                 !.valueParserIndex = 0,
                                 !.padNextWidth = 0,
                                 !.padNextChar = " "])

\* Mutant: the first fixed-width follower ends the group of the active Value.
AppendNumber_ClosesGroup(b, pp) ==
    LET top == Top(b)
        i   == top.valueParserIndex
    IN  IF i > 0 /\ IsFixedWidth(pp)
        THEN ReplaceTop(b, [top EXCEPT
                 !.printerParsers =
                     Append([@ EXCEPT ![i].subsequentWidth = @ + pp.maxWidth], Padded(top, pp)),
                 !.valueParserIndex = 0,
                 !.padNextWidth = 0,
                 !.padNextChar = " "])
        ELSE ReplaceTop(b, [top EXCEPT
                 !.printerParsers = Append(@, Padded(top, pp)),
                 !.valueParserIndex =
                     IF pp.kind = "Value" /\ pp.minWidth < pp.maxWidth /\ top.padNextWidth = 0
                     THEN Len(top.printerParsers) + 1 ELSE 0,
                 !.padNextWidth = 0,
                 !.padNextChar = " "])

\* A number node.  A fixed-width one that directly follows the active Value
\* (or its followers) adds its width to what the active Value reserves; any
\* other becomes the active Value when it is variable-width.
AppendNumber(b, pp) ==
    LET top == Top(b)
        i   == top.valueParserIndex
    IN  IF i > 0 /\ IsFixedWidth(pp)
        THEN ReplaceTop(b, [top EXCEPT
                 !.printerParsers =
                     Append([@ EXCEPT ![i].subsequentWidth = @ + pp.maxWidth], Padded(top, pp)),
                 !.padNextWidth = 0,
                 !.padNextChar = " "])
        ELSE ReplaceTop(b, [top EXCEPT
                 !.printerParsers = Append(@, Padded(top, pp)),
                 !.valueParserIndex =
                     IF pp.kind = "Value" /\ pp.minWidth < pp.maxWidth /\ top.padNextWidth = 0
                     THEN Len(top.printerParsers) + 1 ELSE 0,
                 !.padNextWidth = 0,
                 !.padNextChar = " "])

\* appendValue that checks the widths against 1 only.
appendValue_NoUpperCheck(b, field, minWidth, maxWidth, signStyle) ==
    IF minWidth < 1 \/ maxWidth < 1 \/ maxWidth < minWidth
    THEN BuilderResult(b, [type |-> "IllegalArgumentException"])
    ELSE BuilderResult(AppendNumber(b, ValueNode(field, minWidth, maxWidth, signStyle)), NoError)

\* appendValue(field, minWidth, maxWidth, signStyle)
appendValue(b, field, minWidth, maxWidth, signStyle) ==
    IF minWidth < 1 \/ minWidth > MaxValueWidth \/ maxWidth < 1 \/ maxWidth > MaxValueWidth
       \/ maxWidth < minWidth
    THEN BuilderResult(b, [type |-> "IllegalArgumentException"])
    ELSE BuilderResult(AppendNumber(b, ValueNode(field, minWidth, maxWidth, signStyle)), NoError)

\* appendValueReduced(field, width, maxWidth, baseValue)
appendValueReduced(b, field, width, maxWidth, baseValue) ==
    BuilderResult(AppendNumber(b, ReducedNode(field, width, maxWidth, baseValue)), NoError)

\* appendLiteral(literal): the empty string is a no-op.
appendLiteral(b, literal) ==
    IF literal = "" THEN BuilderResult(b, NoError)
    ELSE BuilderResult(AppendInternal(b, LiteralNode(literal)), NoError)

\* padNext(padWidth, padChar): the next node of the innermost frame is padded.
padNext(b, padWidth, padChar) ==
    IF padWidth < 1
    THEN BuilderResult(b, [type |-> "IllegalArgumentException"])
    ELSE BuilderResult(ReplaceTop(b, [Top(b) EXCEPT !.padNextWidth = padWidth,
                                                    !.padNextChar = padChar,
                                                    !.valueParserIndex = 0]),
                       NoError)

\* optionalStart(): pushes an optional frame.
optionalStart(b) ==
    BuilderResult(Append(ReplaceTop(b, [Top(b) EXCEPT !.valueParserIndex = 0]), Frame(TRUE)),
                  NoError)

\* Mutant: with no optional frame open the call is a no-op.
optionalEnd_NoCheck(b) ==
    IF Len(b) = 1
    THEN BuilderResult(b, NoError)
    ELSE LET top    == Top(b)
             parent == SubSeq(b, 1, Len(b) - 1)
         IN  IF Len(top.printerParsers) > 0
             THEN BuilderResult(
                      AppendInternal(parent, CompositeNode(top.printerParsers, top.optional)),
                      NoError)
             ELSE BuilderResult(parent, NoError)

\* optionalEnd(): pops the innermost frame into its parent, as one optional
\* composite when it holds nodes; fails when no optional frame is open.
optionalEnd(b) ==
    IF Len(b) = 1
    THEN BuilderResult(b, [type |-> "IllegalStateException"])
    ELSE LET top    == Top(b)
             parent == SubSeq(b, 1, Len(b) - 1)
         IN  IF Len(top.printerParsers) > 0
             THEN BuilderResult(
                      AppendInternal(parent, CompositeNode(top.printerParsers, top.optional)),
                      NoError)
             ELSE BuilderResult(parent, NoError)

IllegalArgument(b) == BuilderResult(b, [type |-> "IllegalArgumentException"])

\* The fields whose value range is fixed, as appendFraction requires.
FixedRangeFields == {"MinuteOfHour", "NanoOfSecond"}

\* appendFraction(field, minWidth, maxWidth, decimalPoint)
appendFraction(b, field, minWidth, maxWidth, decimalPoint) ==
    IF field \notin FixedRangeFields \/ minWidth < 0 \/ minWidth > 9
       \/ maxWidth < 0 \/ maxWidth > 9 \/ maxWidth < minWidth
    THEN IllegalArgument(b)
    ELSE BuilderResult(AppendInternal(b, FractionNode(field, minWidth, maxWidth, decimalPoint)),
                       NoError)

\* The offset patterns of the data model.
OffsetPatterns ==
    {"+HH", "+HHMM", "+HH:MM", "+HHMMss", "+HH:MM:ss", "+HHMMSS", "+HH:MM:SS"}

\* The offset pattern of the pattern letters X and x repeated count times.
OffsetLetterPattern(count) ==
    CASE count = 1 -> "+HHmm"
      [] count = 2 -> "+HHMM"
      [] count = 3 -> "+HH:MM"
      [] count = 4 -> "+HHMMss"
      [] count = 5 -> "+HH:MM:ss"

\* The patterns an Offset node is made with: those of the data model and the
\* hour-with-optional-minute form of the letters X and x.
AcceptedOffsetPatterns == OffsetPatterns \cup {OffsetLetterPattern(1)}

\* appendOffset with no check of the pattern.
appendOffset_NoCheck(b, pattern, noOffsetText) ==
    BuilderResult(AppendInternal(b, OffsetNode(pattern, noOffsetText)), NoError)

\* appendOffset(pattern, noOffsetText)
appendOffset(b, pattern, noOffsetText) ==
    IF pattern \notin AcceptedOffsetPatterns THEN IllegalArgument(b)
    ELSE BuilderResult(AppendInternal(b, OffsetNode(pattern, noOffsetText)), NoError)

\* appendOffsetId()
appendOffsetId(b) == appendOffset(b, "+HH:MM:ss", "Z")

\* appendZoneId()
appendZoneId(b) == BuilderResult(AppendInternal(b, ZoneIdNode), NoError)

\* appendValueReduced(field, width, maxWidth, baseDate): the base is the year
\* of the date, and the node keeps the date.
appendValueReducedDate(b, field, width, maxWidth, baseDate) ==
    BuilderResult(
        AppendNumber(b, [kind |-> "ReducedValue", field |-> field, minWidth |-> width,
                         maxWidth |-> maxWidth, signStyle |-> "NOT_NEGATIVE",
                         baseValue |-> DigitsValue(baseDate, 0, 4), baseDate |-> baseDate]),
        NoError)

-----------------------------------------------------------------------------
(* The pattern compiler (spec section 4.2): appendPattern reads the pattern *)
(* from left to right and makes one builder call for each run of a letter,  *)
(* each quoted literal, each bracket and each other character.              *)

Letters ==
    {"a", "b", "c", "d", "e", "f", "g", "h", "i", "j", "k", "l", "m",
     "n", "o", "p", "q", "r", "s", "t", "u", "v", "w", "x", "y", "z",
     "A", "B", "C", "D", "E", "F", "G", "H", "I", "J", "K", "L", "M",
     "N", "O", "P", "Q", "R", "S", "T", "U", "V", "W", "X", "Y", "Z"}

IsLetter(c) == c \in Letters

\* No character kept for future use.
ReservedChars_None == {}

\* The characters kept for future use.
ReservedChars == {"{", "}", "#"}

\* The field of a pattern letter.
PatternField(letter) ==
    CASE letter = "y" -> "YearOfEra"
      [] letter = "u" -> "Year"
      [] letter = "M" -> "MonthOfYear"
      [] letter = "L" -> "MonthOfYear"
      [] letter = "q" -> "QuarterOfYear"
      [] letter = "d" -> "DayOfMonth"
      [] letter = "D" -> "DayOfYear"
      [] letter = "F" -> "AlignedDayOfWeekInMonth"
      [] letter = "H" -> "HourOfDay"
      [] letter = "K" -> "HourOfAmPm"
      [] letter = "k" -> "ClockHourOfDay"
      [] letter = "h" -> "ClockHourOfAmPm"
      [] letter = "m" -> "MinuteOfHour"
      [] letter = "s" -> "SecondOfMinute"
      [] letter = "S" -> "NanoOfSecond"
      [] letter = "A" -> "MilliOfDay"
      [] letter = "n" -> "NanoOfSecond"
      [] letter = "N" -> "NanoOfDay"

\* Every letter with the most repetitions of the text letters.
MaxLetterCount_Five(letter) == 5

\* The most repetitions of a letter whose count is bounded by the table.
MaxLetterCount(letter) ==
    CASE letter \in {"d", "H", "K", "k", "h", "m", "s"} -> 2
      [] letter \in {"M", "L", "q"} -> 2
      [] letter = "D" -> 3
      [] letter = "F" -> 1

\* The text of a zero offset for the letter x repeated count times.
ZeroOffsetText(count) ==
    IF count = 1 THEN "+00" ELSE IF count % 2 = 0 THEN "+0000" ELSE "+00:00"

\* The builder call of the letter repeated count times.
CompileLetter(b, letter, count) ==
    CASE letter \in {"y", "u"} ->
             (CASE count = 1 -> appendValue(b, PatternField(letter), 1, MaxValueWidth, "NORMAL")
                [] count = 2 ->
                       appendValueReducedDate(b, PatternField(letter), 2, 2, "2000-01-01")
                [] count = 3 -> appendValue(b, PatternField(letter), 3, MaxValueWidth, "NORMAL")
                [] OTHER ->
                       appendValue(b, PatternField(letter), count, MaxValueWidth, "EXCEEDS_PAD"))
      [] letter \in {"M", "L", "q", "d", "D", "F", "H", "K", "k", "h", "m", "s"} ->
             IF count > MaxLetterCount(letter) THEN IllegalArgument(b)
             ELSE IF count = 1
             THEN appendValue(b, PatternField(letter), 1, MaxValueWidth, "NORMAL")
             ELSE appendValue(b, PatternField(letter), count, count, "NOT_NEGATIVE")
      [] letter \in {"A", "n", "N"} ->
             IF count = 1
             THEN appendValue(b, PatternField(letter), 1, MaxValueWidth, "NORMAL")
             ELSE appendValue(b, PatternField(letter), count, count, "NOT_NEGATIVE")
      [] letter = "S" -> appendFraction(b, PatternField(letter), count, count, FALSE)
      [] letter = "V" -> IF count = 2 THEN appendZoneId(b) ELSE IllegalArgument(b)
      [] letter = "Z" ->
             IF count <= 3 THEN appendOffset(b, "+HHMM", "+0000")
             ELSE IF count = 5 THEN appendOffset(b, "+HH:MM:ss", "Z")
             ELSE IllegalArgument(b)
      [] letter = "X" ->
             IF count > 5 THEN IllegalArgument(b)
             ELSE appendOffset(b, OffsetLetterPattern(count), "Z")
      [] letter = "x" ->
             IF count > 5 THEN IllegalArgument(b)
             ELSE appendOffset(b, OffsetLetterPattern(count), ZeroOffsetText(count))
      [] OTHER -> IllegalArgument(b)

\* How often the character at index pos is repeated from there on.
RECURSIVE RunLength(_, _)
RunLength(pattern, pos) ==
    IF pos + 1 < Len(pattern) /\ CharAt(pattern, pos + 1) = CharAt(pattern, pos)
    THEN 1 + RunLength(pattern, pos + 1) ELSE 1

\* The index of the apostrophe that closes the literal whose text starts at
\* pos, a doubled apostrophe being text; Len(pattern) when there is none.
RECURSIVE QuoteEnd(_, _)
QuoteEnd(pattern, pos) ==
    IF pos >= Len(pattern) THEN Len(pattern)
    ELSE IF CharAt(pattern, pos) = "'"
    THEN IF CharAt(pattern, pos + 1) = "'" THEN QuoteEnd(pattern, pos + 2) ELSE pos
    ELSE QuoteEnd(pattern, pos + 1)

\* text with every doubled apostrophe made one.
RECURSIVE SingleQuotes(_)
SingleQuotes(text) ==
    IF text = "" THEN ""
    ELSE IF StartsWith(text, "''") THEN "'" \o SingleQuotes(Substring(text, 2, Len(text)))
    ELSE CharAt(text, 0) \o SingleQuotes(Substring(text, 1, Len(text)))

\* An unquoted ']' with no frame open is taken as closing nothing.
CloseSection_NoCheck(b) == IF Len(b) = 1 THEN BuilderResult(b, NoError) ELSE optionalEnd(b)

\* An unquoted ']': closes the innermost optional frame; an error of the
\* pattern when none is open.
CloseSection(b) == IF Len(b) = 1 THEN IllegalArgument(b) ELSE optionalEnd(b)

\* The builder after the calls of the pattern from index pos on, or the
\* builder as the failing call found it, and the error.
RECURSIVE CompileFrom(_, _, _)
CompileFrom(b, pattern, pos) ==
    IF pos >= Len(pattern) THEN BuilderResult(b, NoError)
    ELSE LET cur == CharAt(pattern, pos)
         IN  CASE cur = "p" ->
                      LET count  == RunLength(pattern, pos)
                          next   == pos + count
                          letter == CharAt(pattern, next)
                      IN  IF ~IsLetter(letter) THEN IllegalArgument(b)
                          ELSE LET r == CompileLetter(padNext(b, count, " ").active, letter,
                                                      RunLength(pattern, next))
                               IN  IF r.error # NoError THEN r
                                   ELSE CompileFrom(r.active, pattern,
                                                    next + RunLength(pattern, next))
               [] IsLetter(cur) /\ cur # "p" ->
                      LET r == CompileLetter(b, cur, RunLength(pattern, pos))
                      IN  IF r.error # NoError THEN r
                          ELSE CompileFrom(r.active, pattern, pos + RunLength(pattern, pos))
               [] cur = "'" ->
                      LET end == QuoteEnd(pattern, pos + 1)
                          str == Substring(pattern, pos + 1, end)
                      IN  IF end >= Len(pattern) THEN IllegalArgument(b)
                          ELSE CompileFrom(
                                   appendLiteral(b, IF str = "" THEN "'"
                                                    ELSE SingleQuotes(str)).active,
                                   pattern, end + 1)
               [] cur = "[" -> CompileFrom(optionalStart(b).active, pattern, pos + 1)
               [] cur = "]" ->
                      LET r == CloseSection(b)
                      IN  IF r.error # NoError THEN r
                          ELSE CompileFrom(r.active, pattern, pos + 1)
               [] cur \in ReservedChars -> IllegalArgument(b)
               [] OTHER -> CompileFrom(appendLiteral(b, cur).active, pattern, pos + 1)

\* appendPattern that leaves in the builder what it appended before it failed.
appendPattern_KeepsPartial(b, pattern) == CompileFrom(b, pattern, 0)

\* appendPattern(pattern): on an error the builder is as before the call.
appendPattern(b, pattern) ==
    LET r == CompileFrom(b, pattern, 0)
    IN  IF r.error = NoError THEN r ELSE BuilderResult(b, r.error)

\* toFormatter(): closes the frames still open, then wraps the root sequence.
RECURSIVE CloseOptionals(_)
CloseOptionals(b) == IF Len(b) = 1 THEN b ELSE CloseOptionals(optionalEnd(b).active)

NoFormatter == [kind |-> "none"]

toFormatter(b) ==
    [kind |-> "DateTimeFormatter",
     printerParser |-> CompositeNode(CloseOptionals(b)[1].printerParsers, FALSE)]

-----------------------------------------------------------------------------
(* External collaborators of the facade (spec section 6). *)

\* A ParsePosition: index, and errorIndex, -1 when unset.
NewParsePosition(index) == [index |-> index, errorIndex |-> -1]

Null == [kind |-> "null"]

\* What a call gives: the value it returns, or the exception it throws.
Return(value) == [thrown |-> NoError, value |-> value]
Throw(ex)     == [thrown |-> ex, value |-> Null]

DateTimeParseException(message, text, errorIndex, cause) ==
    [type |-> "DateTimeParseException", message |-> message, text |-> text,
     errorIndex |-> errorIndex, cause |-> cause]

\* The resolver: STRICT resolution rejects a bound value outside its field's
\* range with a DateTimeException.
resolve(builder) ==
    IF \E f \in DOMAIN builder.fieldValues :
           builder.fieldValues[f] < FieldMin(f) \/ builder.fieldValues[f] > FieldMax(f)
    THEN Throw([type |-> "DateTimeException", message |-> "Invalid value"])
    ELSE Return(builder)

\* The query types a caller of parse(text, type) asks for.
QueryTypes == {"LocalDate"}

QueryFields(type) ==
    CASE type = "LocalDate" -> {"Year", "MonthOfYear", "DayOfMonth"}

\* builder.build(type): the query fails when the bindings lack one of its fields.
build(builder, type) ==
    IF QueryFields(type) \subseteq DOMAIN builder.fieldValues
    THEN Return([kind |-> type,
                 fieldValues |-> [f \in QueryFields(type) |-> builder.fieldValues[f]]])
    ELSE Throw([type |-> "DateTimeException", message |-> "Unable to obtain " \o type])

-----------------------------------------------------------------------------
(* The DateTimeFormatter facade. *)

\* this._printerParser.parse(context, text, pos) on a new DateTimeParseContext.
RootParse(f, text, pos) == ParseNode(f.printerParser, NoBindings, text, pos)

\* Mutant: the error index is stored without the complement, and the index moves.
parseUnresolved0_RawError(f, text, position) ==
    LET r == RootParse(f, text, position.index)
    IN  IF r.pos < 0
        THEN [value |-> Null,
              position |-> [index |-> Complement(r.pos), errorIndex |-> r.pos]]
        ELSE [value |-> [kind |-> "Parsed", fieldValues |-> r.parsed],
              position |-> [position EXCEPT !.index = r.pos]]

\* Mutant: a successful parse clears the error index.
parseUnresolved0_ClearsError(f, text, position) ==
    LET r == RootParse(f, text, position.index)
    IN  IF r.pos < 0
        THEN [value |-> Null,
              position |-> [position EXCEPT !.errorIndex = Complement(r.pos)]]
        ELSE [value |-> [kind |-> "Parsed", fieldValues |-> r.parsed],
              position |-> [index |-> r.pos, errorIndex |-> -1]]

\* Mutant: a successful parse leaves the index where it was.
parseUnresolved0_KeepsIndex(f, text, position) ==
    LET r == RootParse(f, text, position.index)
    IN  IF r.pos < 0
        THEN [value |-> Null,
              position |-> [position EXCEPT !.errorIndex = Complement(r.pos)]]
        ELSE [value |-> [kind |-> "Parsed", fieldValues |-> r.parsed],
              position |-> position]

\* _parseUnresolved0(text, position): the value returned and the position object after.
parseUnresolved0(f, text, position) ==
    LET r == RootParse(f, text, position.index)
    IN  IF r.pos < 0
        THEN [value |-> Null,
              position |-> [position EXCEPT !.errorIndex = Complement(r.pos)]]
        ELSE [value |-> [kind |-> "Parsed", fieldValues |-> r.parsed],
              position |-> [position EXCEPT !.index = r.pos]]

\* parseUnresolved(text, position)
parseUnresolved(f, text, position) == parseUnresolved0(f, text, position)

\* The abbreviation of _parseToBuilder: text.substr(0, 64) + '...'.
Abbreviate(text) == IF Len(text) > 64 THEN Substring(text, 0, 64) \o "..." ELSE text

\* Mutant: text left unparsed is not looked for.
parseToBuilder_NoLengthCheck(f, text, position) ==
    LET pos == IF position # Null THEN position ELSE NewParsePosition(0)
        r   == parseUnresolved0(f, text, pos)
    IN  IF r.value = Null \/ r.position.errorIndex >= 0
        THEN Throw(DateTimeParseException(
                 "Text '" \o Abbreviate(text) \o "' could not be parsed at index "
                     \o ToString(r.position.errorIndex),
                 text, r.position.errorIndex, Null))
        ELSE Return([kind |-> "DateTimeBuilder", fieldValues |-> r.value.fieldValues])

\* _parseToBuilder(text, position): position is Null when parsing a whole string.
parseToBuilder(f, text, position) ==
    LET pos == IF position # Null THEN position ELSE NewParsePosition(0)
        r   == parseUnresolved0(f, text, pos)
    IN  IF r.value = Null \/ r.position.errorIndex >= 0
           \/ (position = Null /\ r.position.index < Len(text))
        THEN IF r.position.errorIndex >= 0
             THEN Throw(DateTimeParseException(
                      "Text '" \o Abbreviate(text) \o "' could not be parsed at index "
                          \o ToString(r.position.errorIndex),
                      text, r.position.errorIndex, Null))
             ELSE Throw(DateTimeParseException(
                      "Text '" \o Abbreviate(text)
                          \o "' could not be parsed, unparsed text found at index "
                          \o ToString(r.position.index),
                      text, r.position.index, Null))
        ELSE Return([kind |-> "DateTimeBuilder", fieldValues |-> r.value.fieldValues])

\* _createError(text, ex): text.subString is not a function of a JavaScript
\* string, so the branch for a text longer than 64 characters throws a TypeError.
createError(text, ex) ==
    IF Len(text) > 64
    THEN Throw([type |-> "TypeError", message |-> "text.subString is not a function"])
    ELSE Return(DateTimeParseException(
             "Text '" \o text \o "' could not be parsed: " \o ex.message, text, 0, ex))

\* The catch block of parse1 and parse2.
CatchParse(text, ex) ==
    IF ex.type = "DateTimeParseException" THEN Throw(ex)
    ELSE LET e == createError(text, ex)
         IN  IF e.thrown # NoError THEN Throw(e.thrown) ELSE Throw(e.value)

\* parse1(text)
parse1(f, text) ==
    LET b == parseToBuilder(f, text, Null)
    IN  IF b.thrown # NoError THEN CatchParse(text, b.thrown)
        ELSE LET r == resolve(b.value)
             IN  IF r.thrown # NoError THEN CatchParse(text, r.thrown) ELSE r

\* parse2(text, type)
parse2(f, text, type) ==
    LET b == parseToBuilder(f, text, Null)
    IN  IF b.thrown # NoError THEN CatchParse(text, b.thrown)
        ELSE LET r == resolve(b.value)
             IN  IF r.thrown # NoError THEN CatchParse(text, r.thrown)
                 ELSE LET q == build(r.value, type)
                      IN  IF q.thrown # NoError THEN CatchParse(text, q.thrown) ELSE q

\* Mutant: the root printer is not run, and the empty buffer is returned.
format_EmptyBuffer(f, temporal) == Return("")

\* format(temporal)
format(f, temporal) ==
    LET r == PrintNode(f.printerParser, temporal)
    IN  IF r.ok THEN Return(r.out)
        ELSE Throw([type |-> "DateTimeException", message |-> "Unsupported field"])

\* Mutant: the outer brackets of the root composite are kept.
toString_KeepsBrackets(f) == NodeToString(f.printerParser)

\* toString that takes the substring to the end of the pattern.
toString_KeepsLast(f) ==
    LET pattern == NodeToString(f.printerParser)
    IN  IF StartsWith(pattern, "[") THEN pattern
        ELSE Substring(pattern, 1, Len(pattern))

\* toString()
toString(f) ==
    LET pattern == NodeToString(f.printerParser)
    IN  IF StartsWith(pattern, "[") THEN pattern
        ELSE Substring(pattern, 1, Len(pattern) - 1)

-----------------------------------------------------------------------------
(* Builder calls as values, and their replay on a new builder. *)

CallValue(field, minWidth, maxWidth, signStyle) ==
    [op |-> "appendValue", field |-> field, minWidth |-> minWidth, maxWidth |-> maxWidth,
     signStyle |-> signStyle]

\* appendValue(field, width): the fixed-width form.
CallValueFixed(field, width) == CallValue(field, width, width, "NOT_NEGATIVE")

CallReduced(field, width, maxWidth, baseValue) ==
    [op |-> "appendValueReduced", field |-> field, width |-> width, maxWidth |-> maxWidth,
     baseValue |-> baseValue]

CallLiteral(literal) == [op |-> "appendLiteral", literal |-> literal]

\* padNext(padWidth) is padNext(padWidth, ' ').
CallPadNext(padWidth, padChar) == [op |-> "padNext", padWidth |-> padWidth, padChar |-> padChar]

CallFraction(field, minWidth, maxWidth, decimalPoint) ==
    [op |-> "appendFraction", field |-> field, minWidth |-> minWidth, maxWidth |-> maxWidth,
     decimalPoint |-> decimalPoint]

CallOffset(pattern, noOffsetText) ==
    [op |-> "appendOffset", pattern |-> pattern, noOffsetText |-> noOffsetText]

CallOffsetId == [op |-> "appendOffsetId"]

CallPattern(pattern) == [op |-> "appendPattern", pattern |-> pattern]

CallOptionalStart == [op |-> "optionalStart"]

CallOptionalEnd == [op |-> "optionalEnd"]

CallToFormatter == [op |-> "toFormatter"]

ApplyCall(b, c) ==
    CASE c.op = "appendValue" ->
             appendValue(b, c.field, c.minWidth, c.maxWidth, c.signStyle)
      [] c.op = "appendValueReduced" ->
             appendValueReduced(b, c.field, c.width, c.maxWidth, c.baseValue)
      [] c.op = "appendLiteral"      -> appendLiteral(b, c.literal)
      [] c.op = "padNext"            -> padNext(b, c.padWidth, c.padChar)
      [] c.op = "appendFraction"     ->
             appendFraction(b, c.field, c.minWidth, c.maxWidth, c.decimalPoint)
      [] c.op = "appendOffset"       -> appendOffset(b, c.pattern, c.noOffsetText)
      [] c.op = "appendOffsetId"     -> appendOffsetId(b)
      [] c.op = "appendPattern"      -> appendPattern(b, c.pattern)
      [] c.op = "optionalStart"      -> optionalStart(b)
      [] c.op = "optionalEnd"        -> optionalEnd(b)
      [] c.op = "toFormatter"        -> BuilderResult(CloseOptionals(b), NoError)

\* The builder after the calls cs on a new builder; a call that throws leaves
\* the builder as it was.
RECURSIVE Replay(_)
Replay(cs) ==
    IF Len(cs) = 0 THEN NewBuilder
    ELSE ApplyCall(Replay(SubSeq(cs, 1, Len(cs) - 1)), cs[Len(cs)]).active

\* new DateTimeFormatterBuilder() ... .toFormatter()
Built(cs) == toFormatter(Replay(cs))

-----------------------------------------------------------------------------
(* Inputs of the facade specification. *)

\* A literal of 64 characters: texts longer than 64 characters start with it.
LongLiteral == "aaaaaaaaaaaaaaaaaaaaaaaaaaaaaaaaaaaaaaaaaaaaaaaaaaaaaaaaaaaaaaaa"

VMonth == CallValue("MonthOfYear", 1, 2, "NORMAL")
VDay2  == CallValueFixed("DayOfMonth", 2)
VMonth2 == CallValueFixed("MonthOfYear", 2)
VYear  == CallValue("Year", 4, 10, "EXCEEDS_PAD")

\* The formatters of the facade specification, by the builder calls that make them.
FacadeCallSeqs ==
    { <<>>,
      <<VMonth, VDay2>>,
      <<VYear, VMonth2, VDay2>>,
      <<CallReduced("Year", 2, 2, 2000)>>,
      <<VYear, CallLiteral("-"), VMonth2, CallLiteral("-"), VDay2>>,
      <<VYear, CallOptionalStart, CallLiteral("-"), VMonth2,
        CallOptionalStart, CallLiteral("-"), VDay2>>,
      <<CallLiteral(LongLiteral), VMonth>> }

Texts ==
    { "12", "123", "0123", "20090630", "2012-06", "2012-06-30", "2012-13-01",
      LongLiteral \o "1", LongLiteral \o "13", LongLiteral \o "1x" }

\* The temporals handed to format: the fields they support and their values.
Temporals ==
    { [f \in {"MonthOfYear", "DayOfMonth"} |-> IF f = "MonthOfYear" THEN 1 ELSE 23],
      [f \in Fields |-> CASE f = "Year" -> 2012 [] f = "MonthOfYear" -> 6
                          [] f = "DayOfMonth" -> 30],
      [f \in Fields |-> CASE f = "Year" -> 1999 [] f = "MonthOfYear" -> 12
                          [] f = "DayOfMonth" -> 3] }

NoCall == [op |-> "none"]

-----------------------------------------------------------------------------
(* The facade specification: a formatter, and the calls a caller makes on it. *)

\* A formatter made by one of the call sequences seqs, and nothing called on it yet.
InitOver(seqs) ==
    /\ \E cs \in seqs :
           /\ calls = cs
           /\ active = CloseOptionals(Replay(cs))
           /\ fmt = Built(cs)
    /\ berror = NoError
    /\ parsePos = NewParsePosition(0)
    /\ call = NoCall
    /\ ret = Return(Null)

Init == InitOver(FacadeCallSeqs)

\* The caller makes a new ParsePosition(i).
NewPosition ==
    /\ fmt # NoFormatter
    /\ \E i \in 0 .. MaxStart :
           /\ parsePos' = NewParsePosition(i)
           /\ ret' = Return(NewParsePosition(i))
    /\ call' = [op |-> "newParsePosition"]
    /\ UNCHANGED <<active, calls, berror, fmt>>

\* formatter.parseUnresolved(text, parsePos)
ParseUnresolvedOver(texts) ==
    /\ fmt # NoFormatter
    /\ \E text \in texts :
           /\ parsePos.index <= Len(text)
           /\ LET r == parseUnresolved(fmt, text, parsePos)
              IN  /\ parsePos' = r.position
                  /\ ret' = Return(r.value)
                  /\ call' = [op |-> "parseUnresolved", text |-> text,
                              index |-> parsePos.index, errorIndex |-> parsePos.errorIndex,
                              root |-> RootParse(fmt, text, parsePos.index).pos]
    /\ UNCHANGED <<active, calls, berror, fmt>>

ParseUnresolved == ParseUnresolvedOver(Texts)

\* formatter.parse(text); source is the temporal the text was formatted from,
\* or Null for a text of the caller's.
Parse1Over(texts, source) ==
    /\ fmt # NoFormatter
    /\ \E text \in texts :
           /\ ret' = parse1(fmt, text)
           /\ call' = [op |-> "parse1", text |-> text, index |-> 0, errorIndex |-> -1,
                       root |-> RootParse(fmt, text, 0).pos, source |-> source]
    /\ UNCHANGED <<active, calls, berror, fmt, parsePos>>

Parse1 == Parse1Over(Texts, Null)

\* formatter.parse(text, type)
Parse2 ==
    /\ fmt # NoFormatter
    /\ \E text \in Texts, type \in QueryTypes :
           /\ ret' = parse2(fmt, text, type)
           /\ call' = [op |-> "parse2", text |-> text, index |-> 0, errorIndex |-> -1,
                       root |-> RootParse(fmt, text, 0).pos, type |-> type]
    /\ UNCHANGED <<active, calls, berror, fmt, parsePos>>

\* formatter.format(temporal)
Format ==
    /\ fmt # NoFormatter
    /\ \E temporal \in Temporals :
           /\ ret' = format(fmt, temporal)
           /\ call' = [op |-> "format", temporal |-> temporal]
    /\ UNCHANGED <<active, calls, berror, fmt, parsePos>>

Next == NewPosition \/ ParseUnresolved \/ Parse1 \/ Parse2 \/ Format

Spec == Init /\ [][Next]_vars

-----------------------------------------------------------------------------
(* Claims about the facade, checked under Spec. *)

IsParseCall == call.op \in {"parse1", "parse2"}

\* C1: when the root parser fails with ~e from start index i, parseUnresolved
\* returns null, sets errorIndex to e (>= 0) and leaves index at i.
C1_FailureSetsErrorIndex ==
    (call.op = "parseUnresolved" /\ call.root < 0) =>
        /\ ret = Return(Null)
        /\ parsePos.errorIndex = Complement(call.root)
        /\ parsePos.errorIndex >= 0
        /\ parsePos.index = call.index

\* A failed parseUnresolved from index 1 whose error lies beyond the start.
C1_Witness ==
    /\ call.op = "parseUnresolved" /\ call.root < 0
    /\ call.index = 1
    /\ parsePos.errorIndex > call.index

\* C2: when the root parser succeeds from index i taking k characters,
\* parseUnresolved returns bindings, index becomes i + k and errorIndex keeps
\* the value it had before the call.
C2_SuccessKeepsErrorIndex ==
    (call.op = "parseUnresolved" /\ call.root >= 0) =>
        /\ ret.thrown = NoError
        /\ ret.value # Null
        /\ ret.value.kind = "Parsed"
        /\ call.root >= call.index
        /\ parsePos.index = call.root
        /\ parsePos.errorIndex = call.errorIndex

\* A successful parseUnresolved on a position that held an error index from an
\* earlier failed call.
C2_Witness ==
    /\ call.op = "parseUnresolved" /\ call.root > call.index
    /\ call.errorIndex >= 0
    /\ parsePos.errorIndex = call.errorIndex
    /\ DOMAIN ret.value.fieldValues # {}

\* C3: parse never returns when the root parser stops at n < text.length: it
\* throws a DateTimeParseException for unparsed text at index n, errorIndex n;
\* when the root parser fails at e it throws one with errorIndex e.
C3_ParseNeedsWholeText ==
    IsParseCall =>
        /\ (call.root >= 0 /\ call.root < Len(call.text)) =>
               /\ ret.thrown.type = "DateTimeParseException"
               /\ ret.thrown.errorIndex = call.root
               /\ EndsWith(ret.thrown.message,
                           "unparsed text found at index " \o ToString(call.root))
               /\ ret.value = Null
        /\ call.root < 0 =>
               /\ ret.thrown.type = "DateTimeParseException"
               /\ ret.thrown.errorIndex = Complement(call.root)
               /\ ret.value = Null

\* parse of a text longer than 64 characters that the root parser leaves
\* partly unparsed.
C3_Witness ==
    /\ call.op = "parse1"
    /\ Len(call.text) > 64
    /\ call.root > 0 /\ call.root < Len(call.text)
    /\ ret.thrown.type = "DateTimeParseException"

\* The abbreviation C4 states: the first 64 characters and '...' when longer.
ClaimedAbbreviation(text) ==
    IF Len(text) > 64 THEN SubSeq(text, 1, 64) \o "..." ELSE text

\* C4: for a text of any length, whatever fails inside parse leaves it as a
\* DateTimeParseException; one that wraps another error carries that error as
\* its cause and the abbreviated text in its message.
C4_ParseThrowsOnlyParseException ==
    (IsParseCall /\ ret.thrown # NoError) =>
        /\ ret.thrown.type = "DateTimeParseException"
        /\ StartsWith(ret.thrown.message, "Text '" \o ClaimedAbbreviation(call.text) \o "'")
        /\ (call.root = Len(call.text)) => ret.thrown.cause.type = "DateTimeException"

\* The root nodes of the formatter.
RootNodes == fmt.printerParser.printerParsers

\* A variable-width Value directly followed by fixed-width Values, and nothing else.
IsAdjacentGroup(nodes) ==
    /\ Len(nodes) >= 2
    /\ nodes[1].kind = "Value" /\ nodes[1].minWidth < nodes[1].maxWidth
    /\ \A i \in 2 .. Len(nodes) : nodes[i].kind = "Value" /\ IsFixedWidth(nodes[i])

\* The total width of the nodes from the second to the i-th.
RECURSIVE FollowersWidth(_, _)
FollowersWidth(nodes, i) ==
    IF i < 2 THEN 0 ELSE nodes[i].maxWidth + FollowersWidth(nodes, i - 1)

\* What C7 states for the group nodes on text at cursor p: the digits of V0 and
\* of each follower, as bindings.
AdjacentBindings(nodes, text, p, L) ==
    LET F  == FollowersWidth(nodes, Len(nodes))
        at(i) == IF i = 1 THEN p ELSE p + L - F + FollowersWidth(nodes, i - 1)
        width(i) == IF i = 1 THEN L - F ELSE nodes[i].maxWidth
        nodeOf(f) == CHOOSE i \in 1 .. Len(nodes) : nodes[i].field = f
    IN  [f \in {nodes[i].field : i \in 1 .. Len(nodes)} |->
            DigitsValue(text, at(nodeOf(f)), width(nodeOf(f)))]

\* C7: for a variable-width Value V0 directly followed by fixed-width Values of
\* total width F, at a cursor p where a digit run of length L starts (counted up
\* to V0.maxWidth + F): the parse fails with the error at p when
\* L < V0.minWidth + F; otherwise V0 is bound to the first L - F digits, each
\* follower to its own width of the digits that follow, and the index becomes
\* p + L.  The examples of the claim are part of the property.
C7_AdjacentValueParsing ==
    /\ (/\ call.op = "parseUnresolved"
        /\ IsAdjacentGroup(RootNodes)
        /\ CharAt(call.text, call.index) \notin {"+", "-"}) =>
           LET nodes == RootNodes
               p     == call.index
               F     == FollowersWidth(nodes, Len(nodes))
               L     == DigitRun(call.text, p, nodes[1].maxWidth + F)
           IN  IF L < nodes[1].minWidth + F
               THEN /\ ret = Return(Null)
                    /\ parsePos.errorIndex = p
                    /\ parsePos.index = p
               ELSE /\ ret.thrown = NoError
                    /\ ret.value # Null
                    /\ ret.value.fieldValues = AdjacentBindings(nodes, call.text, p, L)
                    /\ parsePos.index = p + L
    /\ (call.op = "parseUnresolved" /\ call.index = 0 /\ calls = <<VMonth, VDay2>>) =>
           /\ call.text = "123" =>
                  /\ ret.value # Null
                  /\ ret.value.fieldValues["MonthOfYear"] = 1
                  /\ ret.value.fieldValues["DayOfMonth"] = 23
                  /\ parsePos.index = 3
           /\ call.text = "0123" =>
                  /\ ret.value # Null
                  /\ ret.value.fieldValues["MonthOfYear"] = 1
                  /\ ret.value.fieldValues["DayOfMonth"] = 23
    /\ (/\ call.op = "parseUnresolved" /\ call.index = 0
        /\ calls = <<VYear, VMonth2, VDay2>> /\ call.text = "20090630") =>
           /\ ret.value # Null
           /\ ret.value.fieldValues["Year"] = 2009
           /\ ret.value.fieldValues["MonthOfYear"] = 6
           /\ ret.value.fieldValues["DayOfMonth"] = 30

\* Year, month and day parsed from the eight digits of '20090630', from index 0.
C7_Witness ==
    /\ call.op = "parseUnresolved" /\ call.index = 0
    /\ calls = <<VYear, VMonth2, VDay2>> /\ call.text = "20090630"
    /\ ret.value # Null
    /\ ret.value.fieldValues["Year"] = 2009
    /\ parsePos.index = 8

\* A group that fails for want of digits: '12' holds fewer than minWidth + F.
C7_WitnessTooShort ==
    /\ call.op = "parseUnresolved" /\ call.index = 0
    /\ calls = <<VMonth, VDay2>> /\ call.text = "12"
    /\ ret = Return(Null)
    /\ parsePos.errorIndex = 0

-----------------------------------------------------------------------------
(* The reduced-value specification: a formatter of one ReducedValue node,   *)
(* and parseUnresolved on every text of its width.                          *)

ReducedBases == {2000, 1950, 1999, 5}

ReducedCallSeqs ==
    { <<CallReduced("Year", wm[1], wm[2], base)>> :
          wm \in {x \in (1 .. MaxReducedWidth) \X (1 .. MaxReducedWidth) : x[1] <= x[2]},
          base \in ReducedBases }

\* Every text of at most MaxReducedWidth digits, and texts that are not digits.
ReducedTexts ==
    { ZeroPad(d, w) : d \in 0 .. Pow10(MaxReducedWidth) - 1, w \in 1 .. MaxReducedWidth }
        \cup {"", "x1", "1x"}

InitReduced == InitOver(ReducedCallSeqs)

\* Each parseUnresolved is made on a new ParsePosition, as the tests make it.
ParseUnresolvedReduced ==
    /\ call.op # "parseUnresolved"
    /\ ParseUnresolvedOver(ReducedTexts)

NextReduced == NewPosition \/ ParseUnresolvedReduced

SpecReduced == InitReduced /\ [][NextReduced]_vars

\* C8: for ReducedValue(field, w, _, base), every successfully parsed w-digit
\* text d is bound to the value v with base <= v < base + 10^w and
\* v mod 10^w = d; with base 2000 '12' gives 2012 and '99' gives 2099, with
\* base 1950 '12' gives 2012, '49' gives 2049 and '50' gives 1950.
C8_ReducedValueWindow ==
    (call.op = "parseUnresolved" /\ ret.value # Null) =>
        LET node == RootNodes[1]
            w    == node.minWidth
            d    == DigitsValue(call.text, call.index, w)
            v    == ret.value.fieldValues[node.field]
        IN  /\ DigitRun(call.text, call.index, w) = w
            /\ node.baseValue <= v
            /\ v < node.baseValue + Pow10(w)
            /\ v % Pow10(w) = d
            /\ parsePos.index = call.index + w
            /\ (w = 2 /\ call.index = 0 /\ node.baseValue = 2000) =>
                   /\ call.text = "12" => v = 2012
                   /\ call.text = "99" => v = 2099
            /\ (w = 2 /\ call.index = 0 /\ node.baseValue = 1950) =>
                   /\ call.text = "12" => v = 2012
                   /\ call.text = "49" => v = 2049
                   /\ call.text = "50" => v = 1950

\* With base 1950, '49' lies below the base in its own century and is placed
\* in the next one.
C8_Witness ==
    /\ call.op = "parseUnresolved" /\ call.index = 0 /\ call.text = "49"
    /\ calls = <<CallReduced("Year", 2, 2, 1950)>>
    /\ ret.value # Null
    /\ ret.value.fieldValues["Year"] = 2049

-----------------------------------------------------------------------------
(* The builder specification: calls on a new DateTimeFormatterBuilder, in   *)
(* any order, toFormatter among them, and toString on the formatter made    *)
(* last.                                                                    *)

\* The appendValue calls explored; the last has maxWidth < minWidth.
BuildValueCalls == {VMonth, VDay2, CallValue("DayOfMonth", 2, 1, "NORMAL")}

BuildReducedCalls == {CallReduced("Year", 2, 2, 2000), CallReduced("Year", 2, 2, 1950)}

BuildLiterals == {"-", ""}

InitBuild ==
    /\ active = NewBuilder
    /\ calls = <<>>
    /\ berror = NoError
    /\ fmt = NoFormatter
    /\ parsePos = NewParsePosition(0)
    /\ call = NoCall
    /\ ret = Return(Null)

\* One call c on the builder; open is the number of optional frames open on entry.
BuilderCall(c) ==
    /\ Len(calls) < MaxCalls
    /\ LET r == ApplyCall(active, c)
       IN  /\ active' = r.active
           /\ berror' = r.error
           /\ ret' = IF r.error = NoError THEN Return(Null) ELSE Throw(r.error)
    /\ calls' = Append(calls, c)
    /\ call' = [op |-> c.op, open |-> Len(active) - 1]
    /\ UNCHANGED <<fmt, parsePos>>

AppendValue == \E c \in BuildValueCalls : BuilderCall(c)

AppendValueReduced == \E c \in BuildReducedCalls : BuilderCall(c)

AppendLiteral == \E literal \in BuildLiterals : BuilderCall(CallLiteral(literal))

OptionalStart == BuilderCall(CallOptionalStart)

OptionalEnd == BuilderCall(CallOptionalEnd)

\* builder.toFormatter(): the frames still open are closed in the builder.
ToFormatter ==
    /\ Len(calls) < MaxCalls
    /\ fmt' = toFormatter(active)
    /\ active' = CloseOptionals(active)
    /\ berror' = NoError
    /\ ret' = Return(toFormatter(active))
    /\ calls' = Append(calls, CallToFormatter)
    /\ call' = [op |-> "toFormatter", open |-> Len(active) - 1]
    /\ UNCHANGED parsePos

\* formatter.toString()
FormatterToString ==
    /\ fmt # NoFormatter
    /\ ret' = Return(toString(fmt))
    /\ call' = [op |-> "toString"]
    /\ UNCHANGED <<active, calls, berror, fmt, parsePos>>

\* formatter.parse(text) on the text that formatter.format(temporal) returned.
ParseFormatted ==
    /\ call.op = "format"
    /\ ret.thrown = NoError
    /\ Parse1Over({ret.value}, call.temporal)

NextBuild ==
    \/ AppendValue \/ AppendValueReduced \/ AppendLiteral
    \/ OptionalStart \/ OptionalEnd \/ ToFormatter \/ FormatterToString
    \/ Format \/ ParseFormatted

SpecBuild == InitBuild /\ [][NextBuild]_vars

-----------------------------------------------------------------------------
(* Claims about the builder, checked under SpecBuild. *)

\* The calls made before the last one.
Earlier == SubSeq(calls, 1, Len(calls) - 1)

\* How many of the calls cs are calls of op.
RECURSIVE CountCalls(_, _)
CountCalls(cs, op) ==
    IF Len(cs) = 0 THEN 0
    ELSE CountCalls(SubSeq(cs, 1, Len(cs) - 1), op) + (IF cs[Len(cs)].op = op THEN 1 ELSE 0)

\* How many optional frames the calls cs leave open, by counting alone: an
\* optionalStart opens one, an optionalEnd closes one when one is open and
\* closes nothing when it raises, toFormatter closes all.
RECURSIVE OpenAfter(_)
OpenAfter(cs) ==
    IF Len(cs) = 0 THEN 0
    ELSE LET before == OpenAfter(SubSeq(cs, 1, Len(cs) - 1))
             op     == cs[Len(cs)].op
         IN  CASE op = "optionalStart" -> before + 1
               [] op = "optionalEnd"   -> IF before > 0 THEN before - 1 ELSE 0
               [] op = "toFormatter"   -> 0
               [] OTHER                -> before

\* C9 as stated: optionalEnd raises an IllegalStateException exactly when the
\* number of earlier optionalEnd calls equals the number of earlier
\* optionalStart calls, and otherwise closes the innermost frame and succeeds.
C9_RaisesWhenCallCountsEqual ==
    call.op = "optionalEnd" =>
        IF CountCalls(Earlier, "optionalEnd") = CountCalls(Earlier, "optionalStart")
        THEN berror.type = "IllegalStateException"
        ELSE berror = NoError /\ Len(active) = call.open

\* C9, amended: optionalEnd raises an IllegalStateException exactly when no
\* optional frame is open, that is when every earlier optionalStart has been
\* closed by an earlier optionalEnd that did not raise or by toFormatter;
\* otherwise it closes the innermost open frame and succeeds.
C9_RaisesWhenNoFrameOpen ==
    /\ Len(active) - 1 = OpenAfter(calls)
    /\ call.op = "optionalEnd" =>
           /\ call.open = OpenAfter(Earlier)
           /\ IF OpenAfter(Earlier) = 0
              THEN /\ berror.type = "IllegalStateException"
                   /\ ret.thrown.type = "IllegalStateException"
                   /\ Len(active) = 1
              ELSE /\ berror = NoError
                   /\ ret.thrown = NoError
                   /\ Len(active) = call.open

\* An optionalEnd that succeeds although as many optionalEnd as optionalStart
\* calls came before it: the first optionalEnd raised.
C9_Witness ==
    /\ calls = <<CallOptionalEnd, CallOptionalStart, CallOptionalEnd>>
    /\ call.op = "optionalEnd"
    /\ berror = NoError
    /\ Len(active) = 1

\* The formatter made last: the calls before the last toFormatter.
LastToFormatter == CHOOSE i \in 1 .. Len(calls) :
    /\ calls[i].op = "toFormatter"
    /\ \A j \in (i + 1) .. Len(calls) : calls[j].op # "toFormatter"

BeforeToFormatter == SubSeq(calls, 1, LastToFormatter - 1)

\* k explicit optionalEnd calls.
OptionalEnds(k) == [i \in 1 .. k |-> CallOptionalEnd]

\* C10: toFormatter with k >= 1 optional frames open gives a formatter with
\* the toString of the formatter of the same calls followed by k optionalEnd
\* calls, and does not fail; the formatters of the test are part of the property.
C10_ToFormatterClosesOpenFrames ==
    /\ (call.op = "toFormatter" /\ call.open >= 1) =>
           /\ ret.thrown = NoError
           /\ berror = NoError
           /\ fmt = ret.value
           /\ fmt = Built(Earlier \o OptionalEnds(call.open))
    /\ (call.op = "toString" /\ Len(Replay(BeforeToFormatter)) > 1) =>
           LET k == Len(Replay(BeforeToFormatter)) - 1
           IN  /\ ret = Return(toString(Built(BeforeToFormatter \o OptionalEnds(k))))
               /\ BeforeToFormatter = <<VMonth, CallOptionalStart, VDay2>> =>
                      ret.value = "Value(MonthOfYear,1,2,NORMAL)[Value(DayOfMonth,2)]"
               /\ BeforeToFormatter = <<CallOptionalStart, CallOptionalStart, VDay2>> =>
                      ret.value = "[[Value(DayOfMonth,2)]]"

\* toString of a formatter made with two optional frames open.
C10_Witness ==
    /\ calls = <<CallOptionalStart, CallOptionalStart, VDay2, CallToFormatter>>
    /\ call.op = "toString"
    /\ ret.value = "[[Value(DayOfMonth,2)]]"

-----------------------------------------------------------------------------
(* The round trip of format and parse, checked under SpecBuild. *)

\* The fields the nodes bind, optional sections included.
RECURSIVE NodeFields(_)
NodeFields(nodes) ==
    IF Len(nodes) = 0 THEN {}
    ELSE LET node == nodes[1]
         IN  (IF node.kind = "Composite" THEN NodeFields(node.printerParsers)
              ELSE IF IsNumberNode(node) THEN {node.field} ELSE {})
                 \cup NodeFields(Tail(nodes))

\* The last of the fixed-width number nodes that directly follow the i-th node.
RECURSIVE GroupEnd(_, _)
GroupEnd(nodes, i) ==
    IF i < Len(nodes) /\ IsFixedWidth(nodes[i + 1]) THEN GroupEnd(nodes, i + 1) ELSE i

\* Whether the text a node writes can start with a digit.
StartsWithDigit(node) ==
    \/ IsNumberNode(node)
    \/ node.kind = "Composite"
    \/ node.kind = "Literal" /\ CharAt(node.literal, 0) \in DigitChars

\* The formatters and temporals for which the printed text reads back one way
\* only: no optional section; every variable-width Value reserves the digits
\* of all the fixed-width numbers that directly follow it, and what comes next
\* does not start with a digit; every value fits the maxWidth of its node; a
\* reduced value lies in [base, base + 10^width) and the base ends in width zeros.
RoundTripSafe(f, temporal) ==
    LET nodes == f.printerParser.printerParsers
    IN  \A i \in 1 .. Len(nodes) :
            LET node == nodes[i]
            IN  /\ node.kind # "Composite"
                /\ IsNumberNode(node) => Len(ToString(Abs(temporal[node.field]))) <= node.maxWidth
                /\ (node.kind = "Value" /\ ~IsFixedWidth(node)) =>
                       LET j == GroupEnd(nodes, i)
                       IN  /\ node.subsequentWidth = FollowersWidth(SubSeq(nodes, i, j), j - i + 1)
                           /\ j < Len(nodes) => ~StartsWithDigit(nodes[j + 1])
                /\ node.kind = "ReducedValue" =>
                       /\ node.baseValue <= temporal[node.field]
                       /\ temporal[node.field] < node.baseValue + Pow10(node.minWidth)
                       /\ node.baseValue % Pow10(node.minWidth) = 0

\* What a round trip must give: parse returns, with the value of the temporal
\* for every field of the formatter.
RoundTripHolds ==
    /\ ret.thrown = NoError
    /\ \A field \in NodeFields(RootNodes) :
           /\ field \in DOMAIN ret.value.fieldValues
           /\ ret.value.fieldValues[field] = call.source[field]

IsRoundTrip == call.op = "parse1" /\ call.source # Null

C6_WitnessReduced ==
    /\ IsRoundTrip
    /\ calls = <<CallReduced("Year", 2, 2, 2000), CallToFormatter>>
    /\ call.text = "12"
    /\ ret.thrown = NoError
    /\ ret.value.fieldValues["Year"] = 2012

-----------------------------------------------------------------------------
(* The optional-section specification: a formatter A[B] made by the calls   *)
(* A, optionalStart, B, optionalEnd, and parse and parseUnresolved on it.   *)

OptionalNodeCalls == {VMonth, VDay2, CallLiteral("-")}

\* The sequences of at most n of the calls cs.
SeqsUpTo(cs, n) == UNION {[1 .. k -> cs] : k \in 0 .. n}

OptionalCallSeqs ==
    { A \o <<CallOptionalStart>> \o B \o <<CallOptionalEnd>> :
          A \in SeqsUpTo(OptionalNodeCalls, MaxPart), B \in SeqsUpTo(OptionalNodeCalls, MaxPart) }

OptionalTexts == {"", "1", "12", "123", "1234", "1-", "1-23", "1-23-", "23-1"}

InitOptional == InitOver(OptionalCallSeqs)

Parse1Optional == Parse1Over(OptionalTexts, Null)

\* Each parseUnresolved is made on a new ParsePosition, as the tests make it.
ParseUnresolvedOptional ==
    /\ call.op # "parseUnresolved"
    /\ parsePos.errorIndex = -1
    /\ ParseUnresolvedOver(OptionalTexts)

NextOptional == NewPosition \/ Parse1Optional \/ ParseUnresolvedOptional

SpecOptional == InitOptional /\ [][NextOptional]_vars

\* The calls before the optionalStart, and those between it and the optionalEnd.
StartAt == CHOOSE i \in 1 .. Len(calls) : calls[i].op = "optionalStart"

PartA == SubSeq(calls, 1, StartAt - 1)

PartB == SubSeq(calls, StartAt + 1, Len(calls) - 1)

\* Whether parse(text) of the formatter f returns.
Parses(f, text) == parse1(f, text).thrown = NoError

\* The nodes of AB are those of A and then those of B as the builder makes
\* them alone: no Value of A reserves digits for a fixed-width number of B.
NoGroupAcrossStart ==
    Replay(PartA \o PartB)[1].printerParsers
        = Replay(PartA)[1].printerParsers \o Replay(PartB)[1].printerParsers

\* A[B] parses what A parses.
ParsesWhatAParses ==
    (call.op = "parse1" /\ Parses(Built(PartA), call.text)) =>
        /\ ret.thrown = NoError
        /\ ret = parse1(Built(PartA), call.text)

\* Where A alone succeeds and AB fails, A[B] succeeds with the position and
\* the bindings of A alone.
StopsAtEndOfA ==
    (/\ call.op = "parseUnresolved"
     /\ RootParse(Built(PartA), call.text, call.index).pos >= 0
     /\ RootParse(Built(PartA \o PartB), call.text, call.index).pos < 0) =>
        /\ ret.value # Null
        /\ parsePos.index = RootParse(Built(PartA), call.text, call.index).pos
        /\ ret.value.fieldValues = RootParse(Built(PartA), call.text, call.index).parsed

\* C5 as stated: A[B] parses every input that AB parses and every input that
\* A parses; when AB fails past the end of A's portion, A[B] succeeds having
\* consumed only A's portion.
C5_OptionalSoundness ==
    /\ (call.op = "parse1" /\ Parses(Built(PartA \o PartB), call.text)) =>
           ret.thrown = NoError
    /\ ParsesWhatAParses
    /\ StopsAtEndOfA

\* C5, amended: A[B] parses every input that AB parses when no Value of A
\* reserves digits for a fixed-width number of B in AB; it parses every input
\* that A parses; where A alone succeeds and AB fails, A[B] succeeds having
\* consumed what A alone consumes.
C5_OptionalSoundnessWithoutGroup ==
    /\ (/\ call.op = "parse1"
        /\ NoGroupAcrossStart
        /\ Parses(Built(PartA \o PartB), call.text)) =>
           /\ ret.thrown = NoError
           /\ ret = parse1(Built(PartA \o PartB), call.text)
    /\ ParsesWhatAParses
    /\ StopsAtEndOfA

\* AB fails at the end of '1-23' for want of its last literal; A[B] stops
\* after '1-' with the month alone.
C5_Witness ==
    /\ calls = <<VMonth, CallLiteral("-"), CallOptionalStart,
                 VDay2, CallLiteral("-"), CallOptionalEnd>>
    /\ call.op = "parseUnresolved" /\ call.index = 0 /\ call.text = "1-23"
    /\ RootParse(Built(PartA \o PartB), call.text, 0).pos = Complement(4)
    /\ parsePos.index = 2
    /\ DOMAIN ret.value.fieldValues = {"MonthOfYear"}

\* An input of AB that A[B] parses: '1-23' for month, literal [day].
C5_WitnessParsesAB ==
    /\ calls = <<VMonth, CallLiteral("-"), CallOptionalStart, VDay2, CallOptionalEnd>>
    /\ call.op = "parse1" /\ call.text = "1-23"
    /\ NoGroupAcrossStart
    /\ ret.thrown = NoError
    /\ ret.value.fieldValues["DayOfMonth"] = 23

-----------------------------------------------------------------------------
(* The padding specification: leaf appends, padNext and optional sections   *)
(* on a new builder, toFormatter and toString.                              *)

PadLeafCalls == {VDay2, CallLiteral("-")}

\* padNext(5), padNext(2, '-') and padNext(0), which is refused.
PadNextCalls == {CallPadNext(5, " "), CallPadNext(2, "-"), CallPadNext(0, " ")}

AppendLeaf == \E c \in PadLeafCalls : BuilderCall(c)

PadNext == \E c \in PadNextCalls : BuilderCall(c)

NextPad ==
    \/ AppendLeaf \/ PadNext \/ OptionalStart \/ OptionalEnd
    \/ ToFormatter \/ FormatterToString

SpecPad == InitBuild /\ [][NextPad]_vars

\* The pad a node is wrapped in, as <<width, char>>, or <<>> for none.
PadOf(node) == IF node.kind = "Pad" THEN <<node.padWidth, node.padChar>> ELSE <<>>

\* The node inside the pad, or the node itself.
Unpadded(node) == IF node.kind = "Pad" THEN node.inner ELSE node

\* A call that appends one leaf node.
IsLeafCall(c) ==
    \/ c.op = "appendValue" /\ c.minWidth >= 1 /\ c.minWidth <= c.maxWidth
                            /\ c.maxWidth <= MaxValueWidth
    \/ c.op = "appendValueReduced"
    \/ c.op = "appendLiteral" /\ c.literal # ""

IsPadCall(c) == c.op = "padNext" /\ c.padWidth >= 1

\* The pads of the leaf nodes, in the order the leaves were appended.
RECURSIVE LeafPads(_)
LeafPads(nodes) ==
    IF Len(nodes) = 0 THEN <<>>
    ELSE (IF Unpadded(nodes[1]).kind = "Composite"
          THEN LeafPads(Unpadded(nodes[1]).printerParsers)
          ELSE <<PadOf(nodes[1])>>) \o LeafPads(Tail(nodes))

RECURSIVE BuilderLeafPads(_)
BuilderLeafPads(b) ==
    IF Len(b) = 0 THEN <<>>
    ELSE LeafPads(b[1].printerParsers) \o BuilderLeafPads(Tail(b))

\* Whether a pad wraps an optional section somewhere in the nodes.
RECURSIVE SectionPadded(_)
SectionPadded(nodes) ==
    \E i \in 1 .. Len(nodes) :
        /\ Unpadded(nodes[i]).kind = "Composite"
        /\ \/ nodes[i].kind = "Pad"
           \/ SectionPadded(Unpadded(nodes[i]).printerParsers)

\* C11 as stated, by the calls alone: the pad of a padNext is pending until
\* the next leaf is appended, wherever that is.
RECURSIVE ClaimedPending(_)
ClaimedPending(cs) ==
    IF Len(cs) = 0 THEN <<>>
    ELSE LET c == cs[Len(cs)]
         IN  IF IsPadCall(c) THEN <<c.padWidth, c.padChar>>
             ELSE IF IsLeafCall(c) THEN <<>>
             ELSE ClaimedPending(SubSeq(cs, 1, Len(cs) - 1))

RECURSIVE ClaimedLeafPads(_)
ClaimedLeafPads(cs) ==
    IF Len(cs) = 0 THEN <<>>
    ELSE LET before == SubSeq(cs, 1, Len(cs) - 1)
         IN  IF IsLeafCall(cs[Len(cs)])
             THEN Append(ClaimedLeafPads(before), ClaimedPending(before))
             ELSE ClaimedLeafPads(before)

\* C11 as stated: padNext is one-shot; exactly the next appended leaf node
\* after padNext is wrapped in Pad(inner,width[,char]), and no node appended
\* before it or after it is wrapped by that pad.
C11_PadWrapsNextLeaf ==
    /\ BuilderLeafPads(active) = ClaimedLeafPads(calls)
    /\ \A i \in 1 .. Len(active) : ~SectionPadded(active[i].printerParsers)

\* The pads of the nodes of a frame, optional sections with the pads inside them.
RECURSIVE NodePads(_)
NodePads(nodes) ==
    [i \in 1 .. Len(nodes) |->
        [pad   |-> PadOf(nodes[i]),
         inner |-> IF Unpadded(nodes[i]).kind = "Composite"
                   THEN NodePads(Unpadded(nodes[i]).printerParsers) ELSE <<>>]]

\* The frames of the builder: the pads of their nodes and their pending pad.
FramePads(b) ==
    [i \in 1 .. Len(b) |->
        [pads    |-> NodePads(b[i].printerParsers),
         pending |-> IF b[i].padNextWidth > 0
                     THEN <<b[i].padNextWidth, b[i].padNextChar>> ELSE <<>>]]

\* Closing the innermost of the frames fs: a section that holds nodes is one
\* node of its parent and takes the parent's pending pad.
CloseExpected(fs) ==
    LET top    == fs[Len(fs)]
        parent == fs[Len(fs) - 1]
        rest   == SubSeq(fs, 1, Len(fs) - 2)
    IN  IF Len(top.pads) = 0 THEN Append(rest, parent)
        ELSE Append(rest, [pads    |-> Append(parent.pads,
                                              [pad |-> parent.pending, inner |-> top.pads]),
                           pending |-> <<>>])

RECURSIVE CloseAllExpected(_)
CloseAllExpected(fs) == IF Len(fs) = 1 THEN fs ELSE CloseAllExpected(CloseExpected(fs))

\* The frames the calls cs leave, by the calls alone: the pad of a padNext is
\* pending in the frame it was called in, until a node is appended to that frame.
RECURSIVE ExpectedFrames(_)
ExpectedFrames(cs) ==
    IF Len(cs) = 0 THEN <<[pads |-> <<>>, pending |-> <<>>]>>
    ELSE LET fs  == ExpectedFrames(SubSeq(cs, 1, Len(cs) - 1))
             c   == cs[Len(cs)]
             top == fs[Len(fs)]
         IN  CASE IsPadCall(c) ->
                      [fs EXCEPT ![Len(fs)].pending = <<c.padWidth, c.padChar>>]
               [] IsLeafCall(c) ->
                      [fs EXCEPT ![Len(fs)] =
                          [pads    |-> Append(top.pads, [pad |-> top.pending, inner |-> <<>>]),
                           pending |-> <<>>]]
               [] c.op = "optionalStart" -> Append(fs, [pads |-> <<>>, pending |-> <<>>])
               [] c.op = "optionalEnd"   -> IF Len(fs) = 1 THEN fs ELSE CloseExpected(fs)
               [] c.op = "toFormatter"   -> CloseAllExpected(fs)
               [] OTHER -> fs

\* C11, amended: padNext is one-shot for the frame it is called in: exactly
\* the next node appended to that frame is wrapped in Pad(inner,width[,char]),
\* a leaf node or, when optionalStart comes before the next leaf, the whole
\* optional section once it is closed holding nodes; no other node is wrapped
\* by that pad, the leaves inside the section included.
C11_PadWrapsNextNodeOfFrame ==
    /\ FramePads(active) = ExpectedFrames(calls)
    /\ call.op = "toString" =>
           /\ BeforeToFormatter = <<VDay2, CallPadNext(2, "-"), VDay2>> =>
                  ret.value = "Value(DayOfMonth,2)Pad(Value(DayOfMonth,2),2,'-')"
           /\ BeforeToFormatter = <<CallPadNext(5, " "), CallOptionalStart, VDay2>> =>
                  ret.value = "Pad([Value(DayOfMonth,2)],5)"

\* padNext(5), optionalStart, appendValue, toFormatter: the pad wraps the
\* optional section, not the value inside it.
C11_Witness ==
    /\ calls = <<CallPadNext(5, " "), CallOptionalStart, VDay2, CallToFormatter>>
    /\ call.op = "toString"
    /\ ret.value = "Pad([Value(DayOfMonth,2)],5)"

\* padNext(2, '-') and two leaves: the first is wrapped, the second is not.
C11_WitnessOneShot ==
    /\ calls = <<CallPadNext(2, "-"), VDay2, VDay2>>
    /\ BuilderLeafPads(active) = << <<2, "-">>, <<>> >>

-----------------------------------------------------------------------------
(* The width specification: appendValue with widths in and out of range. *)

\* appendValue(DAY_OF_MONTH, width)
WidthCalls == {CallValueFixed("DayOfMonth", w) : w \in {0, MaxValueWidth, MaxValueWidth + 1}}

\* appendValue(DAY_OF_MONTH, minWidth, maxWidth, SignStyle.NORMAL)
RangeCalls ==
    {CallValue("DayOfMonth", r[1], r[2], "NORMAL") :
        r \in {<<0, 2>>, <<2, 0>>, <<2, MaxValueWidth + 1>>, <<4, 2>>, <<2, 3>>,
               <<1, MaxValueWidth>>, <<MaxValueWidth + 1, MaxValueWidth + 1>>}}

AppendValueWidth == \E c \in WidthCalls : BuilderCall(c)

AppendValueRange == \E c \in RangeCalls : BuilderCall(c)

NextWidth == AppendValueWidth \/ AppendValueRange \/ ToFormatter \/ FormatterToString

SpecWidth == InitBuild /\ [][NextWidth]_vars

\* The Value nodes of a node sequence, those inside sections and pads included.
RECURSIVE ValueNodes(_)
ValueNodes(nodes) ==
    IF Len(nodes) = 0 THEN {}
    ELSE LET n == Unpadded(nodes[1])
         IN  (CASE n.kind = "Value"     -> {n}
                [] n.kind = "Composite" -> ValueNodes(n.printerParsers)
                [] OTHER                -> {})
             \cup ValueNodes(Tail(nodes))

WidthInRange(w) == 1 <= w /\ w <= MaxValueWidth

\* C12: appendValue raises IllegalArgumentException exactly when a width is
\* outside 1..15 or minWidth > maxWidth (the two-argument form being
\* minWidth = maxWidth = width), and every Value node of the builder and of
\* the formatter has 1 <= minWidth <= maxWidth <= 15.
C12_ValueWidthsInRange ==
    /\ call.op = "appendValue" =>
           LET c == calls[Len(calls)]
           IN  (berror.type = "IllegalArgumentException")
                   <=> ~(WidthInRange(c.minWidth) /\ WidthInRange(c.maxWidth)
                         /\ c.minWidth <= c.maxWidth)
    /\ call.op = "appendValue" => berror.type \in {"none", "IllegalArgumentException"}
    /\ \A i \in 1 .. Len(active) : \A n \in ValueNodes(active[i].printerParsers) :
           WidthInRange(n.minWidth) /\ WidthInRange(n.maxWidth) /\ n.minWidth <= n.maxWidth
    /\ fmt # NoFormatter => \A n \in ValueNodes(fmt.printerParser.printerParsers) :
           WidthInRange(n.minWidth) /\ WidthInRange(n.maxWidth) /\ n.minWidth <= n.maxWidth

\* appendValue(field, 1, 15, NORMAL) was accepted and appendValue(field, 16)
\* has just raised; the builder holds the one accepted node.
C12_Witness ==
    /\ calls = <<CallValue("DayOfMonth", 1, MaxValueWidth, "NORMAL"),
                 CallValueFixed("DayOfMonth", MaxValueWidth + 1)>>
    /\ call.op = "appendValue"
    /\ berror.type = "IllegalArgumentException"
    /\ Len(active[1].printerParsers) = 1

-----------------------------------------------------------------------------
(* The pattern specification: appendPattern on a new builder, or on one     *)
(* with an optional frame open, then toFormatter and toString.              *)

\* The most appendPattern calls on one builder.
MaxPatternCalls == 1

\* The valid patterns of the test and the toString of their formatters.
dataValid ==
    {<<"'a'", "'a'">>, <<"''", "''">>, <<"'!'", "'!'">>, <<"!", "'!'">>,
     <<"'hello_people,][)('", "'hello_people,][)('">>, <<"'hi'", "'hi'">>,
     <<"'yyyy'", "'yyyy'">>, <<"''''", "''">>, <<"'o''clock'", "'o''clock'">>,
     <<"u", "Value(Year)">>, <<"uu", "ReducedValue(Year,2,2,2000-01-01)">>,
     <<"uuu", "Value(Year,3,15,NORMAL)">>, <<"uuuu", "Value(Year,4,15,EXCEEDS_PAD)">>,
     <<"uuuuu", "Value(Year,5,15,EXCEEDS_PAD)">>,
     <<"y", "Value(YearOfEra)">>, <<"yy", "ReducedValue(YearOfEra,2,2,2000-01-01)">>,
     <<"yyy", "Value(YearOfEra,3,15,NORMAL)">>,
     <<"yyyy", "Value(YearOfEra,4,15,EXCEEDS_PAD)">>,
     <<"yyyyy", "Value(YearOfEra,5,15,EXCEEDS_PAD)">>,
     <<"M", "Value(MonthOfYear)">>, <<"MM", "Value(MonthOfYear,2)">>,
     <<"D", "Value(DayOfYear)">>, <<"DD", "Value(DayOfYear,2)">>,
     <<"DDD", "Value(DayOfYear,3)">>,
     <<"d", "Value(DayOfMonth)">>, <<"dd", "Value(DayOfMonth,2)">>,
     <<"F", "Value(AlignedDayOfWeekInMonth)">>,
     <<"H", "Value(HourOfDay)">>, <<"HH", "Value(HourOfDay,2)">>,
     <<"K", "Value(HourOfAmPm)">>, <<"KK", "Value(HourOfAmPm,2)">>,
     <<"k", "Value(ClockHourOfDay)">>, <<"kk", "Value(ClockHourOfDay,2)">>,
     <<"h", "Value(ClockHourOfAmPm)">>, <<"hh", "Value(ClockHourOfAmPm,2)">>,
     <<"m", "Value(MinuteOfHour)">>, <<"mm", "Value(MinuteOfHour,2)">>,
     <<"s", "Value(SecondOfMinute)">>, <<"ss", "Value(SecondOfMinute,2)">>,
     <<"S", "Fraction(NanoOfSecond,1,1)">>, <<"SS", "Fraction(NanoOfSecond,2,2)">>,
     <<"SSS", "Fraction(NanoOfSecond,3,3)">>,
     <<"SSSSSSSSS", "Fraction(NanoOfSecond,9,9)">>,
     <<"A", "Value(MilliOfDay)">>, <<"AA", "Value(MilliOfDay,2)">>,
     <<"AAA", "Value(MilliOfDay,3)">>,
     <<"L", "Value(MonthOfYear)">>,
     <<"n", "Value(NanoOfSecond)">>, <<"nn", "Value(NanoOfSecond,2)">>,
     <<"nnn", "Value(NanoOfSecond,3)">>,
     <<"N", "Value(NanoOfDay)">>, <<"NN", "Value(NanoOfDay,2)">>,
     <<"NNN", "Value(NanoOfDay,3)">>,
     <<"VV", "ZoneId()">>,
     <<"Z", "Offset(+HHMM,'+0000')">>, <<"ZZ", "Offset(+HHMM,'+0000')">>,
     <<"ZZZ", "Offset(+HHMM,'+0000')">>, <<"ZZZZZ", "Offset(+HH:MM:ss,'Z')">>,
     <<"X", "Offset(+HHmm,'Z')">>, <<"XX", "Offset(+HHMM,'Z')">>,
     <<"XXX", "Offset(+HH:MM,'Z')">>, <<"XXXX", "Offset(+HHMMss,'Z')">>,
     <<"XXXXX", "Offset(+HH:MM:ss,'Z')">>,
     <<"x", "Offset(+HHmm,'+00')">>, <<"xx", "Offset(+HHMM,'+0000')">>,
     <<"xxx", "Offset(+HH:MM,'+00:00')">>, <<"xxxx", "Offset(+HHMMss,'+0000')">>,
     <<"xxxxx", "Offset(+HH:MM:ss,'+00:00')">>,
     <<"ppH", "Pad(Value(HourOfDay),2)">>, <<"ppm", "Pad(Value(MinuteOfHour),2)">>,
     <<"pppDD", "Pad(Value(DayOfYear,2),3)">>,
     <<"q", "Value(QuarterOfYear)">>, <<"qq", "Value(QuarterOfYear,2)">>,
     <<"uuuu[-MM[-dd",
       "Value(Year,4,15,EXCEEDS_PAD)['-'Value(MonthOfYear,2)['-'Value(DayOfMonth,2)]]">>,
     <<"uuuu[-MM[-dd]]",
       "Value(Year,4,15,EXCEEDS_PAD)['-'Value(MonthOfYear,2)['-'Value(DayOfMonth,2)]]">>,
     <<"uuuu[-MM[]-dd]",
       "Value(Year,4,15,EXCEEDS_PAD)['-'Value(MonthOfYear,2)'-'Value(DayOfMonth,2)]">>,
     <<"uuuu-MM-dd'T'HH:mm:ss.SSS",
       "Value(Year,4,15,EXCEEDS_PAD)'-'Value(MonthOfYear,2)'-'Value(DayOfMonth,2)"
           \o "'T'Value(HourOfDay,2)':'Value(MinuteOfHour,2)':'Value(SecondOfMinute,2)"
           \o "'.'Fraction(NanoOfSecond,3,3)">>}

\* The invalid patterns of the test.
dataInvalid ==
    {"'", "'hello", "'hel''lo", "'hello''", "]", "{", "}", "#",
     "yyyy]", "yyyy]MM", "yyyy[MM]]",
     "MMMMMM", "QQQQQQ", "cccccc", "DDDD", "eeeeee", "EEEEEE", "aaaaaa", "VVV", "W", "WW",
     "XXXXXX", "xxxxxx", "zzzzzz", "ZZZZZZ",
     "RO", "p", "pp", "p:", "qqqqqq",
     "f", "ff", "f:", "fy", "fa", "fM",
     "ddd", "FF", "FFF", "aa", "aaa", "aaaa", "aaaaa",
     "HHH", "KKK", "kkk", "hhh", "mmm", "OO", "OOO", "OOOOO", "sss"}

\* Patterns of characters that are not letters, with and without the
\* characters kept for future use.
PlainPatterns == {"-", ":", "-:", ". ", "!#", "{-"}

\* Patterns with a letter outside the table or repeated too often, alone,
\* after other letters and after a literal, and a literal of such letters.
RunPatterns ==
    {"V", "a", "E", "Q", "z", "R", "O", "c", "e", "dddd", "MMMMMMM",
     "uuuu-ddd", "'dd'ddd", "'ddd'", "'W'"}

\* The patterns explored.
Patterns == {d[1] : d \in dataValid} \cup dataInvalid \cup PlainPatterns \cup RunPatterns

\* The calls made on the builder before appendPattern.
PatternPrefixes == {<<>>, <<CallOptionalStart>>}

\* The builder after one of the call sequences seqs, no formatter made yet.
InitBuilderOver(seqs) ==
    /\ \E cs \in seqs :
           /\ calls = cs
           /\ active = Replay(cs)
    /\ fmt = NoFormatter
    /\ berror = NoError
    /\ parsePos = NewParsePosition(0)
    /\ call = NoCall
    /\ ret = Return(Null)

InitPattern == InitBuilderOver(PatternPrefixes)

AppendPattern ==
    /\ CountCalls(calls, "appendPattern") < MaxPatternCalls
    /\ \E pattern \in Patterns : BuilderCall(CallPattern(pattern))

NextPattern == AppendPattern \/ ToFormatter \/ FormatterToString

SpecPattern == InitPattern /\ [][NextPattern]_vars

\* builder.appendPattern(input) on a new builder, toFormatter() and toString().
PatternTested(input) ==
    /\ calls = <<CallPattern(input), CallToFormatter>>
    /\ call.op = "toString"

\* The valid patterns of the test give the formatters the test expects and
\* the invalid ones raise IllegalArgumentException.
PatternTestsPass ==
    /\ \A d \in dataValid : PatternTested(d[1]) => ret.value = d[2]
    /\ \A input \in dataInvalid :
           calls = <<CallPattern(input)>> => berror.type = "IllegalArgumentException"

-----------------------------------------------------------------------------
(* The error specification: builder calls that raise, among calls that do   *)
(* not, then toFormatter and toString.                                      *)

\* Calls that raise on every builder, calls that raise on some, and one
\* that never does.
ErrorCalls ==
    {CallValueFixed("DayOfMonth", 0),
     CallFraction("DayOfMonth", 1, 9, FALSE),
     CallOffset("HH", "Z"),
     CallPadNext(0, " "),
     CallOptionalEnd,
     CallPattern("yyyy]MM"),
     CallPattern("yyyy[MM]]"),
     VDay2}

\* The calls made on the builder before.
ErrorPrefixes == {<<>>, <<CallOptionalStart>>, <<CallPadNext(5, " ")>>}

InitError == InitBuilderOver(ErrorPrefixes)

CheckedCall == \E c \in ErrorCalls : BuilderCall(c)

NextError == CheckedCall \/ ToFormatter \/ FormatterToString

SpecError == InitError /\ [][NextError]_vars

\* The calls cs without those that raise.
RECURSIVE WithoutFailed(_)
WithoutFailed(cs) ==
    IF Len(cs) = 0 THEN <<>>
    ELSE LET before == WithoutFailed(SubSeq(cs, 1, Len(cs) - 1))
             c      == cs[Len(cs)]
         IN  IF ApplyCall(Replay(before), c).error = NoError
             THEN Append(before, c) ELSE before

PatternChars(pattern) == {CharAt(pattern, i) : i \in 0 .. Len(pattern) - 1}

\* A pattern of characters that are neither letters, nor the apostrophe, nor
\* brackets: all its characters are unquoted.
IsPlainPattern(pattern) ==
    /\ Len(pattern) > 0
    /\ PatternChars(pattern) \cap (Letters \cup {"'", "[", "]"}) = {}

\* One literal node for each character of the pattern.
CharLiterals(pattern) == [i \in 1 .. Len(pattern) |-> LiteralNode(CharAt(pattern, i - 1))]

\* The last call is appendPattern(pattern) and appended the nodes to the
\* innermost frame without raising.
PatternAppended(pattern, nodes) ==
    /\ berror = NoError
    /\ Len(active) = Len(Replay(Earlier))
    /\ Top(active).printerParsers = Top(Replay(Earlier)).printerParsers \o nodes

\* C14 as stated: every unquoted character that is not a letter, the
\* apostrophe or a bracket becomes a one-character literal node, and the
\* pattern is never rejected because of it.
C14_NonLetterIsLiteral ==
    call.op = "appendPattern" =>
        LET pattern == calls[Len(calls)].pattern
        IN  IsPlainPattern(pattern) => PatternAppended(pattern, CharLiterals(pattern))

\* C14, amended: every unquoted character that is not a letter, the
\* apostrophe, a bracket or one of the reserved characters '{', '}' and '#'
\* becomes a one-character literal node and the pattern is not rejected
\* because of it; an unquoted '{', '}' or '#' makes appendPattern raise
\* IllegalArgumentException.
C14_NonReservedNonLetterIsLiteral ==
    /\ call.op = "appendPattern" =>
           LET pattern == calls[Len(calls)].pattern
           IN  IsPlainPattern(pattern) =>
                   IF PatternChars(pattern) \cap {"{", "}", "#"} = {}
                   THEN PatternAppended(pattern, CharLiterals(pattern))
                   ELSE berror.type = "IllegalArgumentException"
    /\ PatternTested("!") => ret.value = "'!'"
    /\ PatternTested("uuuu-MM-dd'T'HH:mm:ss.SSS") =>
           ret.value = "Value(Year,4,15,EXCEEDS_PAD)'-'Value(MonthOfYear,2)'-'Value(DayOfMonth,2)"
                           \o "'T'Value(HourOfDay,2)':'Value(MinuteOfHour,2)':'"
                           \o "Value(SecondOfMinute,2)'.'Fraction(NanoOfSecond,3,3)"

\* appendPattern('-:') in an open optional frame has appended two literals.
C14_Witness ==
    /\ calls = <<CallOptionalStart, CallPattern("-:")>>
    /\ call.op = "appendPattern"
    /\ Top(active).printerParsers = <<LiteralNode("-"), LiteralNode(":")>>

\* appendPattern('{-') has raised.
C14_WitnessReserved ==
    /\ calls = <<CallPattern("{-")>>
    /\ berror.type = "IllegalArgumentException"

\* What is wrong with the brackets and quotes of the pattern from index pos
\* on, depth sections being open and quoted telling whether pos is inside a
\* literal: "close" for an unquoted ']' with no '[' open, "quote" for a
\* literal not closed, "open" for a '[' never closed, "balanced" otherwise.
RECURSIVE BracketScan(_, _, _, _)
BracketScan(pattern, pos, depth, quoted) ==
    IF pos >= Len(pattern)
    THEN (IF quoted THEN "quote" ELSE IF depth > 0 THEN "open" ELSE "balanced")
    ELSE LET cur == CharAt(pattern, pos)
         IN  IF quoted
             THEN IF cur = "'" /\ CharAt(pattern, pos + 1) = "'"
                  THEN BracketScan(pattern, pos + 2, depth, TRUE)
                  ELSE BracketScan(pattern, pos + 1, depth, cur # "'")
             ELSE CASE cur = "'" -> BracketScan(pattern, pos + 1, depth, TRUE)
                    [] cur = "[" -> BracketScan(pattern, pos + 1, depth + 1, FALSE)
                    [] cur = "]" -> IF depth = 0 THEN "close"
                                    ELSE BracketScan(pattern, pos + 1, depth - 1, FALSE)
                    [] OTHER     -> BracketScan(pattern, pos + 1, depth, FALSE)

\* The last call is appendPattern on a builder with no optional frame open.
PatternOnClosedBuilder == call.op = "appendPattern" /\ Len(Replay(Earlier)) = 1

\* C15 as stated: appendPattern raises IllegalArgumentException for an
\* unquoted ']' with no open '[', for an unquoted '[' never closed and for a
\* literal not closed.
C15_UnbalancedRaises ==
    PatternOnClosedBuilder =>
        (BracketScan(calls[Len(calls)].pattern, 0, 0, FALSE) # "balanced"
             => berror.type = "IllegalArgumentException")

\* C15, amended: on a builder with no optional frame open, appendPattern
\* raises IllegalArgumentException for an unquoted ']' with no open '[' and
\* for an apostrophe-opened literal that is not closed before the end of the
\* pattern; an unquoted '[' that is never closed is not an error: the
\* section stays open, and toFormatter closes it.
C15_UnbalancedCloseOrQuoteRaises ==
    /\ PatternOnClosedBuilder =>
           (BracketScan(calls[Len(calls)].pattern, 0, 0, FALSE) \in {"close", "quote"}
                => berror.type = "IllegalArgumentException")
    /\ calls = <<CallPattern("uuuu[-MM[-dd")>> => berror = NoError /\ Len(active) = 3
    /\ PatternTested("uuuu[-MM[-dd") =>
           ret.value = "Value(Year,4,15,EXCEEDS_PAD)['-'Value(MonthOfYear,2)"
                           \o "['-'Value(DayOfMonth,2)]]"

\* appendPattern('yyyy[MM]]') on a new builder has raised: its second ']'
\* has no open '['.
C15_Witness ==
    /\ calls = <<CallPattern("yyyy[MM]]")>>
    /\ BracketScan("yyyy[MM]]", 0, 0, FALSE) = "close"
    /\ berror.type = "IllegalArgumentException"

\* appendPattern('uuuu[-MM[-dd'), toFormatter, toString: two sections left
\* open by the pattern, closed by toFormatter.
C15_WitnessOpen ==
    /\ PatternTested("uuuu[-MM[-dd")
    /\ BracketScan("uuuu[-MM[-dd", 0, 0, FALSE) = "open"
    /\ EndsWith(ret.value, "]]")

\* appendPattern of a literal not closed has raised.
C15_WitnessQuote ==
    /\ calls = <<CallPattern("'hello''")>>
    /\ BracketScan("'hello''", 0, 0, FALSE) = "quote"
    /\ berror.type = "IllegalArgumentException"

\* The runs of unquoted letters of the pattern from index pos on, each as
\* <<letter, count>>.
RECURSIVE LetterRuns(_, _, _)
LetterRuns(pattern, pos, quoted) ==
    IF pos >= Len(pattern) THEN {}
    ELSE LET cur == CharAt(pattern, pos)
         IN  IF quoted
             THEN IF cur = "'" /\ CharAt(pattern, pos + 1) = "'"
                  THEN LetterRuns(pattern, pos + 2, TRUE)
                  ELSE LetterRuns(pattern, pos + 1, cur # "'")
             ELSE IF cur = "'" THEN LetterRuns(pattern, pos + 1, TRUE)
             ELSE IF IsLetter(cur)
             THEN {<<cur, RunLength(pattern, pos)>>}
                      \cup LetterRuns(pattern, pos + RunLength(pattern, pos), FALSE)
             ELSE LetterRuns(pattern, pos + 1, FALSE)

\* The letters of the mapping table.
TableLetters ==
    {"y", "u", "M", "L", "d", "D", "H", "K", "k", "h", "m", "s", "S", "A", "n", "N",
     "F", "q", "V", "Z", "X", "x", "p"}

\* A run the table does not support: the letter is outside the table or is
\* repeated more often than its supported maximum.
UnsupportedRun(run) ==
    LET letter == run[1]
        count  == run[2]
    IN  \/ letter \in {"d", "H", "K", "k", "h", "m", "s"} /\ count > 2
        \/ letter = "D" /\ count > 3
        \/ letter = "F" /\ count > 1
        \/ letter \in {"M", "q", "X", "x", "Z"} /\ count > 5
        \/ letter = "V" /\ count # 2
        \/ letter \notin TableLetters

\* C16: appendPattern raises IllegalArgumentException whenever the pattern
\* has an unquoted letter that is outside the mapping table or is repeated
\* more often than its supported maximum: more than 2 for d, H, K, k, h, m,
\* s; more than 3 for D; more than 1 for F; more than 5 for M, q, X, x, Z;
\* any count of V other than 2.
C16_UnsupportedLetterRaises ==
    call.op = "appendPattern" =>
        ((\E run \in LetterRuns(calls[Len(calls)].pattern, 0, FALSE) : UnsupportedRun(run))
             => berror.type = "IllegalArgumentException")

\* appendPattern('uuuu-ddd') has raised for its run of three d.
C16_Witness ==
    /\ calls = <<CallPattern("uuuu-ddd")>>
    /\ <<"d", 3>> \in LetterRuns("uuuu-ddd", 0, FALSE)
    /\ UnsupportedRun(<<"d", 3>>)
    /\ berror.type = "IllegalArgumentException"

\* appendPattern('W') has raised for a letter outside the table, and the
\* quoted letters of 'ddd' are no run.
C16_WitnessOutsideTable ==
    /\ calls = <<CallOptionalStart, CallPattern("W")>>
    /\ berror.type = "IllegalArgumentException"
    /\ LetterRuns("'ddd'", 0, FALSE) = {}

-----------------------------------------------------------------------------
(* The offset specification: the builder calls that make Offset nodes.      *)

\* The most calls that make an Offset node on one builder.
MaxOffsetCalls == 1

\* The patterns the test expects appendOffset to accept.
data_offsetPatterns ==
    {"+HH", "+HHMM", "+HH:MM", "+HHMMss", "+HH:MM:ss", "+HHMMSS", "+HH:MM:SS"}

\* Patterns the test expects appendOffset to reject.
data_badOffsetPatterns == {"HH", "HH:MM:SS", "+H", "+HMM", "+HHM", "+A"}

\* Runs of the offset letters.
OffsetLetterRuns == {"Z", "ZZZZZ", "X", "XX", "XXXXX", "x", "xxx"}

OffsetCalls ==
    {CallOffset(pattern, "Z") : pattern \in data_offsetPatterns \cup data_badOffsetPatterns}
        \cup {CallOffsetId}
        \cup {CallPattern(pattern) : pattern \in OffsetLetterRuns}

AppendOffset ==
    /\ CountCalls(calls, "appendOffset") + CountCalls(calls, "appendOffsetId")
           + CountCalls(calls, "appendPattern") < MaxOffsetCalls
    /\ \E c \in OffsetCalls : BuilderCall(c)

NextOffset == AppendOffset \/ OptionalStart \/ ToFormatter \/ FormatterToString

SpecOffset == InitBuild /\ [][NextOffset]_vars

\* The Offset nodes of a node sequence, those inside sections and pads included.
RECURSIVE OffsetNodes(_)
OffsetNodes(nodes) ==
    IF Len(nodes) = 0 THEN {}
    ELSE LET n == Unpadded(nodes[1])
         IN  (CASE n.kind = "Offset"    -> {n}
                [] n.kind = "Composite" -> OffsetNodes(n.printerParsers)
                [] OTHER                -> {})
             \cup OffsetNodes(Tail(nodes))

\* The Offset nodes of the builder and of the formatter.
BuiltOffsetNodes ==
    UNION {OffsetNodes(active[i].printerParsers) : i \in 1 .. Len(active)}
        \cup (IF fmt = NoFormatter THEN {} ELSE OffsetNodes(fmt.printerParser.printerParsers))

C17_WitnessBadPattern ==
    /\ calls = <<CallOptionalStart, CallOffset("+HHM", "Z")>>
    /\ berror.type = "IllegalArgumentException"

-----------------------------------------------------------------------------
(* The duplicate-field specification: formatters that parse a field twice,  *)
(* on texts that give it the same value and different values.               *)

DuplicateCallSeqs ==
    { <<VDay2, VDay2>>,
      <<VDay2, CallLiteral("-"), VDay2>>,
      <<VDay2, VMonth2, VDay2>>,
      <<VDay2, CallOptionalStart, VDay2>>,
      <<VDay2, CallOptionalStart, CallLiteral("-"), VDay2>> }

DuplicateTexts ==
    { a \o sep \o b : a \in {"23", "24"}, b \in {"23", "24", "2x"}, sep \in {"", "-", "06"} }
        \cup {"23", ""}

InitDuplicate == InitOver(DuplicateCallSeqs)

\* Each parseUnresolved is made on a new ParsePosition.
ParseUnresolvedDuplicate ==
    /\ call.op # "parseUnresolved"
    /\ ParseUnresolvedOver(DuplicateTexts)

NextDuplicate == NewPosition \/ ParseUnresolvedDuplicate

SpecDuplicate == InitDuplicate /\ [][NextDuplicate]_vars

\* What fixed-width values and literals read from the text at pos on: for
\* each Value its field, the number its digits write and their index; a
\* last entry with index -1 when the text does not fit the nodes.
RECURSIVE Readings(_, _, _)
Readings(nodes, text, pos) ==
    IF Len(nodes) = 0 THEN <<>>
    ELSE LET n == nodes[1]
         IN  IF n.kind = "Value"
             THEN IF DigitRun(text, pos, n.minWidth) = n.minWidth
                  THEN <<[field |-> n.field, value |-> DigitsValue(text, pos, n.minWidth),
                          at |-> pos]>>
                           \o Readings(Tail(nodes), text, pos + n.minWidth)
                  ELSE <<[field |-> n.field, value |-> 0, at |-> -1]>>
             ELSE IF pos + Len(n.literal) <= Len(text)
                       /\ Substring(text, pos, pos + Len(n.literal)) = n.literal
                  THEN Readings(Tail(nodes), text, pos + Len(n.literal))
                  ELSE <<[field |-> "", value |-> 0, at |-> -1]>>

\* Whether the text fits the nodes.
Fits(readings) == \A i \in 1 .. Len(readings) : readings[i].at >= 0

\* The first reading that differs from an earlier one of its field; 0 when none.
FirstConflict(readings) ==
    LET conflicts == {j \in 1 .. Len(readings) :
                         \E i \in 1 .. j - 1 : /\ readings[i].field = readings[j].field
                                               /\ readings[i].value # readings[j].value}
    IN  IF conflicts = {} THEN 0
        ELSE CHOOSE j \in conflicts : \A k \in conflicts : j <= k

\* The bindings of readings without conflict.
ReadBindings(readings) ==
    [f \in {readings[i].field : i \in 1 .. Len(readings)} |->
        (CHOOSE r \in {readings[i] : i \in 1 .. Len(readings)} : r.field = f).value]

\* The nodes of the root before its optional section, and those inside it.
BeforeSection ==
    IF RootNodes[Len(RootNodes)].kind = "Composite"
    THEN SubSeq(RootNodes, 1, Len(RootNodes) - 1) ELSE RootNodes

InSection ==
    IF RootNodes[Len(RootNodes)].kind = "Composite"
    THEN RootNodes[Len(RootNodes)].printerParsers ELSE <<>>

\* The last call is a parseUnresolved of a text that fits every node of the formatter.
DuplicateParsed ==
    /\ call.op = "parseUnresolved"
    /\ Fits(Readings(BeforeSection \o InSection, call.text, call.index))

C18_WitnessSame ==
    /\ calls = <<VDay2, VDay2>>
    /\ call.op = "parseUnresolved" /\ call.text = "2323" /\ call.index = 0
    /\ ret.value # Null
    /\ ret.value.fieldValues["DayOfMonth"] = 23
    /\ parsePos.index = 4

\* dd[dd] on '2324': the section fails and the parse succeeds with the first value.
C18_WitnessSection ==
    /\ calls = <<VDay2, CallOptionalStart, VDay2>>
    /\ call.op = "parseUnresolved" /\ call.text = "2324" /\ call.index = 0
    /\ ret.value # Null
    /\ ret.value.fieldValues["DayOfMonth"] = 23
    /\ parsePos.index = 2

-----------------------------------------------------------------------------
(* The chronology specification: formatters made by the constructor, and    *)
(* withChronology on them.  A formatter carries ref, the identity of the    *)
(* object: two formatters with equal fields and different ref are two       *)
(* objects.                                                                 *)

\* An argument left out of a call.
Undefined == [kind |-> "undefined"]

IsoChronology == [kind |-> "chronology", id |-> "ISO"]

\* A chronology other than the ISO one.
OtherChronology == [kind |-> "chronology", id |-> "Other"]

\* new DateTimeFormatter(printerParser, locale, decimalStyle, resolverStyle,
\* resolverFields, chrono = IsoChronology.INSTANCE, zone): the default stands
\* for a chrono left out, not for null.
DateTimeFormatter(ref, printerParser, locale, decimalStyle, resolverStyle, resolverFields, chrono, zone) ==
    [kind |-> "DateTimeFormatter", ref |-> ref, printerParser |-> printerParser,
     locale |-> locale, decimalStyle |-> decimalStyle, resolverStyle |-> resolverStyle,
     resolverFields |-> resolverFields,
     chrono |-> IF chrono = Undefined THEN IsoChronology ELSE chrono,
     zone |-> zone]

\* chronology()
chronology(f) == f.chrono

\* withChronology that always makes a copy.
withChronology_AlwaysCopy(f, chrono, newRef) ==
    DateTimeFormatter(newRef, f.printerParser, f.locale, f.decimalStyle, f.resolverStyle,
                      f.resolverFields, chrono, f.zone)

\* withChronology(chrono); newRef is the identity of the object it makes.
\* this._chrono.equals(chrono) is the equality of chronologies.
withChronology(f, chrono, newRef) ==
    IF f.chrono # Null /\ f.chrono = chrono
    THEN f
    ELSE DateTimeFormatter(newRef, f.printerParser, f.locale, f.decimalStyle, f.resolverStyle,
                           f.resolverFields, chrono, f.zone)

\* The chrono arguments explored: left out, null, and two chronologies.
ChronoArgs == {Undefined, Null, IsoChronology, OtherChronology}

ChronoRoots == {Built(<<>>).printerParser, Built(<<VMonth, VDay2>>).printerParser}

ChronoLocales == {Null, [kind |-> "locale", tag |-> "en"]}

ChronoZones == {Null, [kind |-> "zone", id |-> "UTC"]}

ChronoResolverFields == {Null, [kind |-> "fields", fields |-> {"Year"}]}

InitChrono ==
    /\ \E root \in ChronoRoots, locale \in ChronoLocales, zone \in ChronoZones,
          resolverFields \in ChronoResolverFields, chrono \in ChronoArgs,
          resolverStyle \in {"SMART", "STRICT"} :
           fmt = DateTimeFormatter(1, root, locale, "STANDARD", resolverStyle, resolverFields,
                                   chrono, zone)
    /\ active = NewBuilder
    /\ calls = <<>>
    /\ berror = NoError
    /\ parsePos = NewParsePosition(0)
    /\ call = NoCall
    /\ ret = Return(Null)

\* formatter.withChronology(chrono)
WithChronology ==
    /\ \E chrono \in ChronoArgs :
           /\ ret' = Return(withChronology(fmt, chrono, fmt.ref + 1))
           /\ call' = [op |-> "withChronology", chrono |-> chrono, receiver |-> fmt]
    /\ UNCHANGED <<active, calls, berror, fmt, parsePos>>

\* formatter.chronology()
Chronology ==
    /\ ret' = Return(chronology(fmt))
    /\ call' = [op |-> "chronology"]
    /\ UNCHANGED <<active, calls, berror, fmt, parsePos>>

NextChrono == WithChronology \/ Chronology \/ FormatterToString

SpecChrono == InitChrono /\ [][NextChrono]_vars

\* The formatter g is a new object with the chronology chrono and the root
\* node, locale, decimal style, resolver style, resolver fields and zone of f.
IsCopyWithChronology(g, f, chrono) ==
    /\ g.ref # f.ref
    /\ g.chrono = chrono
    /\ g.printerParser = f.printerParser
    /\ g.locale = f.locale
    /\ g.decimalStyle = f.decimalStyle
    /\ g.resolverStyle = f.resolverStyle
    /\ g.resolverFields = f.resolverFields
    /\ g.zone = f.zone

\* C19 as stated: withChronology(c) returns the receiver itself when c
\* equals the receiver's chronology, and otherwise a new formatter with the
\* chronology c and the other fields of the receiver; the receiver is unchanged.
C19_WithChronology ==
    call.op = "withChronology" =>
        /\ IF call.chrono = call.receiver.chrono
           THEN ret.value = call.receiver
           ELSE IsCopyWithChronology(ret.value, call.receiver, call.chrono)
        /\ fmt = call.receiver

\* C19, amended: for a chronology c (not null, as the method's doc asks),
\* withChronology(c) returns the receiver itself when c equals the
\* receiver's chronology, and otherwise a new formatter with the chronology
\* c and the root node, locale, decimal style, resolver style, resolver
\* fields and zone of the receiver; the receiver is unchanged.
C19_WithChronologyNotNull ==
    (call.op = "withChronology" /\ call.chrono \in {IsoChronology, OtherChronology}) =>
        /\ IF call.chrono = call.receiver.chrono
           THEN ret.value = call.receiver
           ELSE IsCopyWithChronology(ret.value, call.receiver, call.chrono)
        /\ fmt = call.receiver

\* withChronology(ISO) on a formatter with the ISO chronology returned the receiver.
C19_Witness ==
    /\ call.op = "withChronology"
    /\ call.chrono = IsoChronology
    /\ fmt.chrono = IsoChronology
    /\ ret.value.ref = fmt.ref

\* withChronology(Other) on a formatter with no chronology returned a copy.
C19_WitnessCopy ==
    /\ call.op = "withChronology"
    /\ call.chrono = OtherChronology
    /\ fmt.chrono = Null
    /\ fmt.zone # Null
    /\ ret.value.ref # fmt.ref
    /\ ret.value.chrono = OtherChronology
    /\ ret.value.zone = fmt.zone

-----------------------------------------------------------------------------
(* toString of the formatters of the builder, checked under SpecBuild. *)

\* The strings one after the other.
RECURSIVE Concat(_)
Concat(strings) == IF Len(strings) = 0 THEN "" ELSE strings[1] \o Concat(Tail(strings))

\* The pretty-printed forms of the top-level nodes of the formatter.
TopLevelForms == [i \in 1 .. Len(RootNodes) |-> NodeToString(RootNodes[i])]

\* C20: toString() is the pretty-printed form of the root composite without
\* its one enclosing pair of delimiters and with nothing else removed: the
\* concatenation of the forms of the top-level nodes, optional sections
\* keeping their '[' and ']'; the formatter of an empty builder gives ''.
C20_ToStringStripsOuterPair ==
    call.op = "toString" =>
        /\ ret = Return(Concat(TopLevelForms))
        /\ "(" \o ret.value \o ")" = NodeToString(fmt.printerParser)
        /\ Len(RootNodes) = 0 => ret.value = ""
        /\ calls = <<CallToFormatter>> => ret.value = ""

\* toString of a formatter whose only top-level node is an optional section:
\* the section keeps its brackets.
C20_Witness ==
    /\ calls = <<CallOptionalStart, VDay2, CallOptionalEnd, CallToFormatter>>
    /\ call.op = "toString"
    /\ ret.value = "[Value(DayOfMonth,2)]"

\* toString of the formatter of an empty builder.
C20_WitnessEmpty ==
    /\ calls = <<CallToFormatter>>
    /\ call.op = "toString"
    /\ ret.value = ""

-----------------------------------------------------------------------------
(* Period (src/src/Period.js): a date-based amount of years, months and     *)
(* days.  A JavaScript value is a record: a number, a string, null or       *)
(* undefined.  The int of the program is 32 bits wide; the model keeps its  *)
(* arithmetic and narrows the width to IntBits.                             *)

\* The width of an int, in bits.
IntBits == 6

MAX_INT == 2 ^ (IntBits - 1) - 1
MIN_INT == -(2 ^ (IntBits - 1))

\* TLC shares the value of a constant expression between its workers and
\* puts a record in normal form when it first compares it: a record compared
\* with itself is in normal form before it is shared.
Canonical(r) == IF r = r THEN r ELSE r

Num(n) == Canonical([kind |-> "number", n |-> n])
Str(s) == Canonical([kind |-> "string", s |-> s])

\* v == null: true of null and of undefined.
IsNullish(v) == v.kind \in {"null", "undefined"}

\* ToInt32 of a number or of null, as the operator | applies it.
ToInt32(v) == IF IsNullish(v) THEN 0 ELSE ((v.n - MIN_INT) % (2 ^ IntBits)) + MIN_INT

Threw(r) == r.thrown.type # "none"

ArithmeticException(message) == [type |-> "ArithmeticException", message |-> message]
NullPointerException(message) == [type |-> "NullPointerException", message |-> message]
DateTimeException(message) == [type |-> "DateTimeException", message |-> message]

\* requireNonNull(value, parameterName)
requireNonNull(value, parameterName) ==
    IF IsNullish(value) THEN Throw(NullPointerException(parameterName \o " must not be null"))
    ELSE Return(value)

\* MathUtil, by its contract towards Period: an ArithmeticException for a
\* value that is null or exceeds an int.
MathUtil_safeToInt(value) ==
    IF IsNullish(value) THEN Throw(ArithmeticException("Invalid value"))
    ELSE IF value.n > MAX_INT \/ value.n < MIN_INT
         THEN Throw(ArithmeticException("Calculation overflows an int"))
         ELSE Return(value)

MathUtil_safeAdd(x, y) ==
    IF Threw(MathUtil_safeToInt(x)) THEN MathUtil_safeToInt(x)
    ELSE IF Threw(MathUtil_safeToInt(y)) THEN MathUtil_safeToInt(y)
         ELSE MathUtil_safeToInt(Num(x.n + y.n))

MathUtil_safeSubtract(x, y) ==
    IF Threw(MathUtil_safeToInt(x)) THEN MathUtil_safeToInt(x)
    ELSE IF Threw(MathUtil_safeToInt(y)) THEN MathUtil_safeToInt(y)
         ELSE MathUtil_safeToInt(Num(x.n - y.n))

MathUtil_safeMultiply(x, y) ==
    IF Threw(MathUtil_safeToInt(x)) THEN MathUtil_safeToInt(x)
    ELSE IF Threw(MathUtil_safeToInt(y)) THEN MathUtil_safeToInt(y)
         ELSE MathUtil_safeToInt(Num(x.n * y.n))

\* MathUtil.intDiv(x, y) for y > 0: the quotient rounded towards zero.
MathUtil_intDiv(x, y) == IF x >= 0 THEN x \div y ELSE -((-x) \div y)

\* MathUtil.intMod(x, y): the remainder of intDiv, with the sign of x.
MathUtil_intMod(x, y) == x - MathUtil_intDiv(x, y) * y

\* MathUtil.parseInt(str) of a string [-+]?[0-9]+.
MathUtil_parseInt(str) ==
    LET s == str.s
        signed == CharAt(s, 0) \in {"-", "+"}
        digits == IF signed THEN Len(s) - 1 ELSE Len(s)
        value == DigitsValue(s, IF signed THEN 1 ELSE 0, digits)
    IN  MathUtil_safeToInt(Num(IF CharAt(s, 0) = "-" THEN -value ELSE value))

\* Period.ZERO, made by _init without the constructor.
ZERO ==
    Canonical([kind |-> "Period", years |-> Num(0), months |-> Num(0), days |-> Num(0),
               ref |-> "ZERO"])

\* Period._validate(years, month, days)
Period_validate(years, month, days) ==
    IF Threw(requireNonNull(years, "years")) THEN requireNonNull(years, "years")
    ELSE IF Threw(requireNonNull(month, "month")) THEN requireNonNull(month, "month")
    ELSE IF Threw(requireNonNull(days, "days")) THEN requireNonNull(days, "days")
    ELSE IF Threw(MathUtil_safeToInt(years)) THEN MathUtil_safeToInt(years)
    ELSE IF Threw(MathUtil_safeToInt(month)) THEN MathUtil_safeToInt(month)
    ELSE MathUtil_safeToInt(days)

\* (years | months | days) === 0: an or of int32 values is 0 exactly when
\* each of them is.
OrIsZero(years, months, days) ==
    ToInt32(years) = 0 /\ ToInt32(months) = 0 /\ ToInt32(days) = 0

\* A constructor that never gives the zero period.
Period_constructor_NoZero(years, months, days) ==
    IF Threw(Period_validate(years, months, days)) THEN Period_validate(years, months, days)
    ELSE Return([kind |-> "Period", years |-> years, months |-> months, days |-> days,
                 ref |-> "new"])

\* new Period(years, months, days)
Period_constructor(years, months, days) ==
    IF OrIsZero(years, months, days) THEN Return(ZERO)
    ELSE IF Threw(Period_validate(years, months, days)) THEN Period_validate(years, months, days)
    ELSE Return([kind |-> "Period", years |-> years, months |-> months, days |-> days,
                 ref |-> "new"])

\* Period.create(years, months, days)
Period_create(years, months, days) == Period_constructor(years, months, days)

\* create over arguments that are themselves results: the first one that
\* threw is what create's caller throws.
CreateOf(years, months, days) ==
    IF Threw(years) THEN years
    ELSE IF Threw(months) THEN months
    ELSE IF Threw(days) THEN days
    ELSE Period_create(years.value, months.value, days.value)

Period_ofYears(years) == Period_create(years, Num(0), Num(0))
Period_ofMonths(months) == Period_create(Num(0), months, Num(0))
Period_ofWeeks(weeks) == CreateOf(Return(Num(0)), Return(Num(0)), MathUtil_safeMultiply(weeks, Num(7)))
Period_ofDays(days) == Period_create(Num(0), Num(0), days)
Period_of(years, months, days) == Period_create(years, months, days)

\* A temporal amount that is no Period: its units, and the amount of each.
TemporalAmount(units, amounts) ==
    Canonical([kind |-> "TemporalAmount", units |-> units, amounts |-> amounts])

\* The loop of from over amount.units(), from the i-th unit on.
RECURSIVE FromUnits(_, _, _, _, _)
FromUnits(amount, i, years, months, days) ==
    IF i > Len(amount.units) THEN Period_create(years, months, days)
    ELSE LET unit == amount.units[i]
             unitAmount == MathUtil_safeToInt(amount.amounts[i])
         IN  IF unit \notin {"Years", "Months", "Days"}
             THEN Throw(DateTimeException("Unit must be Years, Months or Days, but was " \o unit))
             ELSE IF Threw(unitAmount) THEN unitAmount
             ELSE IF unit = "Years" THEN FromUnits(amount, i + 1, unitAmount.value, months, days)
             ELSE IF unit = "Months" THEN FromUnits(amount, i + 1, years, unitAmount.value, days)
             ELSE FromUnits(amount, i + 1, years, months, unitAmount.value)

\* Period.from(amount)
Period_from(amount) ==
    IF amount.kind = "Period" THEN Return(amount)
    ELSE IF Threw(requireNonNull(amount, "amount")) THEN requireNonNull(amount, "amount")
    ELSE FromUnits(amount, 1, Num(0), Num(0), Num(0))

SignChars == {"-", "+"}

\* (?:([-+]?[0-9]+)<suffix>)? at index p of text: the group's text and the
\* index after the section, or undefined and p.
Section(text, p, suffix) ==
    LET from == IF CharAt(text, p) \in SignChars THEN p + 1 ELSE p
        n == DigitRun(text, from, Len(text))
    IN  IF n > 0 /\ CharAt(text, from + n) = suffix
        THEN [group |-> Str(Substring(text, p, from + n)), end |-> from + n + 1]
        ELSE [group |-> Undefined, end |-> p]

\* PATTERN tried at index i of text: the match array, or null.
MatchAt(text, i) ==
    LET signed == CharAt(text, i) \in SignChars /\ CharAt(text, i + 1) = "P"
        y == Section(text, IF signed THEN i + 2 ELSE i + 1, "Y")
        m == Section(text, y.end, "M")
        w == Section(text, m.end, "W")
        d == Section(text, w.end, "D")
    IN  IF signed \/ CharAt(text, i) = "P"
        THEN [kind |-> "matches", index |-> i, end |-> d.end,
              sign |-> Str(IF signed THEN CharAt(text, i) ELSE ""),
              year |-> y.group, month |-> m.group, week |-> w.group, day |-> d.group]
        ELSE Null

RECURSIVE ExecFrom(_, _)
ExecFrom(text, i) ==
    IF i >= Len(text) THEN Null
    ELSE IF MatchAt(text, i).kind # "null" THEN MatchAt(text, i)
    ELSE ExecFrom(text, i + 1)

\* PATTERN.exec(text): the leftmost match of the pattern in text, or null.
PATTERN_exec(text) == ExecFrom(text, 0)

\* Period._parseNumber(text, str, negate)
Period__parseNumber(text, str, negate) ==
    IF IsNullish(str) THEN Return(Num(0))
    ELSE IF Threw(MathUtil_parseInt(str)) THEN MathUtil_parseInt(str)
    ELSE MathUtil_safeMultiply(MathUtil_parseInt(str).value, negate)

\* _parse, line 318: days = safeAdd(days, safeMultiply(weeks, 7)), given the
\* result weekDays of the multiplication.
Period__parse_days(days, weekDays) ==
    IF Threw(weekDays) THEN weekDays ELSE MathUtil_safeAdd(days.value, weekDays.value)

\* _parse, lines 314-319: the four numbers in the order they are parsed, the
\* first that threw being what _parse throws; then the days and create.
Period__parse_create(years, months, weeks, days) ==
    IF Threw(years) THEN years
    ELSE IF Threw(months) THEN months
    ELSE IF Threw(weeks) THEN weeks
    ELSE IF Threw(days) THEN days
    ELSE CreateOf(years, months,
                  Period__parse_days(days, MathUtil_safeMultiply(weeks.value, Num(7))))

\* _parse, line 306: negate is -1 for the sign '-' and 1 otherwise.
Period__parse_negate(matches) == IF matches.sign = Str("-") THEN Num(-1) ELSE Num(1)

\* _parse, lines 305-322, for the result matches of PATTERN.exec(text).
Period__parse_matches(text, matches) ==
    IF matches.kind # "null"
       /\ ~(IsNullish(matches.year) /\ IsNullish(matches.month)
            /\ IsNullish(matches.week) /\ IsNullish(matches.day))
    THEN Period__parse_create(
             Period__parseNumber(text, matches.year, Period__parse_negate(matches)),
             Period__parseNumber(text, matches.month, Period__parse_negate(matches)),
             Period__parseNumber(text, matches.week, Period__parse_negate(matches)),
             Period__parseNumber(text, matches.day, Period__parse_negate(matches)))
    ELSE Throw(DateTimeParseException("Text cannot be parsed to a Period", text.s, 0, Null))

\* Period._parse(text)
Period__parse(text) == Period__parse_matches(text, PATTERN_exec(text.s))

\* The catch block of parse: an ArithmeticException r is wrapped, anything
\* else is thrown or returned as it is.
Period_parse_catch(text, r) ==
    IF Threw(r) /\ r.thrown.type = "ArithmeticException"
    THEN Throw(DateTimeParseException("Text cannot be parsed to a Period", text.s, 0, r.thrown))
    ELSE r

\* Period.parse(text)
Period_parse(text) ==
    IF Threw(requireNonNull(text, "text")) THEN requireNonNull(text, "text")
    ELSE Period_parse_catch(text, Period__parse(text))

\* isZero()
Period_isZero(this) == this.ref = "ZERO"

\* years(), months(), days()
Period_years(this) == this.years
Period_months(this) == this.months
Period_days(this) == this.days

\* withYears(years), withMonths(months), withDays(days)
Period_withYears(this, years) ==
    IF years = this.years THEN Return(this) ELSE Period_create(years, this.months, this.days)

Period_withMonths(this, months) ==
    IF months = this.months THEN Return(this) ELSE Period_create(this.years, months, this.days)

Period_withDays(this, days) ==
    IF days = this.days THEN Return(this) ELSE Period_create(this.years, this.months, days)

\* plus(amountToAdd)
Period_plus(this, amountToAdd) ==
    LET amount == Period_from(amountToAdd)
    IN  IF Threw(amount) THEN amount
        ELSE CreateOf(MathUtil_safeAdd(this.years, amount.value.years),
                      MathUtil_safeAdd(this.months, amount.value.months),
                      MathUtil_safeAdd(this.days, amount.value.days))

\* MathUtil.safeToInt(MathUtil.safeAdd(x, y))
SafeToIntOfSafeAdd(x, y) ==
    IF Threw(MathUtil_safeAdd(x, y)) THEN MathUtil_safeAdd(x, y)
    ELSE MathUtil_safeToInt(MathUtil_safeAdd(x, y).value)

\* plusYears(yearsToAdd), plusMonths(monthsToAdd), plusDays(daysToAdd)
Period_plusYears(this, yearsToAdd) ==
    IF yearsToAdd = Num(0) THEN Return(this)
    ELSE CreateOf(SafeToIntOfSafeAdd(this.years, yearsToAdd), Return(this.months),
                  Return(this.days))

Period_plusMonths(this, monthsToAdd) ==
    IF monthsToAdd = Num(0) THEN Return(this)
    ELSE CreateOf(Return(this.years), SafeToIntOfSafeAdd(this.months, monthsToAdd),
                  Return(this.days))

Period_plusDays(this, daysToAdd) ==
    IF daysToAdd = Num(0) THEN Return(this)
    ELSE CreateOf(Return(this.years), Return(this.months),
                  SafeToIntOfSafeAdd(this.days, daysToAdd))

\* minus(amountToSubtract)
Period_minus(this, amountToSubtract) ==
    LET amount == Period_from(amountToSubtract)
    IN  IF Threw(amount) THEN amount
        ELSE CreateOf(MathUtil_safeSubtract(this.years, amount.value.years),
                      MathUtil_safeSubtract(this.months, amount.value.months),
                      MathUtil_safeSubtract(this.days, amount.value.days))

\* -1 * value: 0 for null, as the operator * converts it.
MinusOneTimes(value) == IF IsNullish(value) THEN Num(0) ELSE Num(-1 * value.n)

\* minusYears(yearsToSubtract), minusMonths(monthsToSubtract), minusDays(daysToSubtract)
Period_minusYears(this, yearsToSubtract) == Period_plusYears(this, MinusOneTimes(yearsToSubtract))
Period_minusMonths(this, monthsToSubtract) == Period_plusMonths(this, MinusOneTimes(monthsToSubtract))
Period_minusDays(this, daysToSubtract) == Period_plusDays(this, MinusOneTimes(daysToSubtract))

\* multipliedBy(scalar)
Period_multipliedBy(this, scalar) ==
    IF this.ref = "ZERO" \/ scalar = Num(1) THEN Return(this)
    ELSE CreateOf(MathUtil_safeMultiply(this.years, scalar),
                  MathUtil_safeMultiply(this.months, scalar),
                  MathUtil_safeMultiply(this.days, scalar))

\* negated()
Period_negated(this) == Period_multipliedBy(this, Num(-1))

\* toTotalMonths()
Period_toTotalMonths(this) == Num(this.years.n * 12 + this.months.n)

\* A normalization that splits the total months by floor division.
Period_normalized_Floor(this) ==
    LET totalMonths == Period_toTotalMonths(this).n
        splitYears == Num(totalMonths \div 12)
        splitMonths == Num(totalMonths % 12)
    IN  IF splitYears = this.years /\ splitMonths = this.months THEN Return(this)
        ELSE CreateOf(MathUtil_safeToInt(splitYears), Return(splitMonths), Return(this.days))

\* normalized()
Period_normalized(this) ==
    LET totalMonths == Period_toTotalMonths(this).n
        splitYears == Num(MathUtil_intDiv(totalMonths, 12))
        splitMonths == Num(MathUtil_intMod(totalMonths, 12))
    IN  IF splitYears = this.years /\ splitMonths = this.months THEN Return(this)
        ELSE CreateOf(MathUtil_safeToInt(splitYears), Return(splitMonths), Return(this.days))

\* A temporal as addTo and subtractFrom see it: plus and minus give a
\* temporal that remembers the call.
NewTemporal == Canonical([kind |-> "Temporal", log |-> <<>>])

Temporal_plus(temporal, amount, unit) ==
    [temporal EXCEPT !.log = Append(@, [op |-> "plus", amount |-> amount, unit |-> unit])]

Temporal_minus(temporal, amount, unit) ==
    [temporal EXCEPT !.log = Append(@, [op |-> "minus", amount |-> amount, unit |-> unit])]

\* addTo(temporal)
Period_addTo(this, temporal) ==
    IF Threw(requireNonNull(temporal, "temporal")) THEN requireNonNull(temporal, "temporal")
    ELSE LET t1 == IF this.years # Num(0)
                   THEN IF this.months # Num(0)
                        THEN Temporal_plus(temporal, Period_toTotalMonths(this), "Months")
                        ELSE Temporal_plus(temporal, this.years, "Years")
                   ELSE IF this.months # Num(0)
                        THEN Temporal_plus(temporal, this.months, "Months")
                        ELSE temporal
             t2 == IF this.days # Num(0) THEN Temporal_plus(t1, this.days, "Days") ELSE t1
         IN  Return(t2)

\* subtractFrom(temporal)
Period_subtractFrom(this, temporal) ==
    IF Threw(requireNonNull(temporal, "temporal")) THEN requireNonNull(temporal, "temporal")
    ELSE LET t1 == IF this.years # Num(0)
                   THEN IF this.months # Num(0)
                        THEN Temporal_minus(temporal, Period_toTotalMonths(this), "Months")
                        ELSE Temporal_minus(temporal, this.years, "Years")
                   ELSE IF this.months # Num(0)
                        THEN Temporal_minus(temporal, this.months, "Months")
                        ELSE temporal
             t2 == IF this.days # Num(0) THEN Temporal_minus(t1, this.days, "Days") ELSE t1
         IN  Return(t2)

\* equals(obj)
Period_equals(this, obj) ==
    /\ obj.kind = "Period"
    /\ this.years = obj.years /\ this.months = obj.months /\ this.days = obj.days

\* A toString that leaves out the sign of an amount.
Period_toString_NoSign(this) ==
    LET abs(v) == IF v.n < 0 THEN -v.n ELSE v.n
    IN  IF this.ref = "ZERO" THEN "P0D"
        ELSE "P" \o (IF this.years # Num(0) THEN ToString(abs(this.years)) \o "Y" ELSE "")
                 \o (IF this.months # Num(0) THEN ToString(abs(this.months)) \o "M" ELSE "")
                 \o (IF this.days # Num(0) THEN ToString(abs(this.days)) \o "D" ELSE "")

\* toString()
Period_toString(this) ==
    IF this.ref = "ZERO" THEN "P0D"
    ELSE "P" \o (IF this.years # Num(0) THEN ToString(this.years.n) \o "Y" ELSE "")
             \o (IF this.months # Num(0) THEN ToString(this.months.n) \o "M" ELSE "")
             \o (IF this.days # Num(0) THEN ToString(this.days.n) \o "D" ELSE "")

-----------------------------------------------------------------------------
(* The Period specification: a caller that makes a period with a static     *)
(* factory, or starts from Period.ZERO, and then calls the methods of the    *)
(* period it was last given.                                                 *)

\* The number of Period calls the caller makes in a row.
MaxPeriodSteps == 2

Bool(b) == Canonical([kind |-> "boolean", b |-> b])

\* The numbers the caller passes to the factories: in range, at and beyond
\* the ends of the int range, a multiple of 2^IntBits, and null.
PeriodNumbers ==
    {Num(n) : n \in {0, 1, -1, 3, 12, -12, 15, -25, MAX_INT, MIN_INT, MAX_INT + 1,
                     2 ^ IntBits}} \cup {Null}

\* The numbers the caller passes to the methods of a period.
PeriodArguments == {Null, Num(0), Num(1), Num(-1), Num(12), Num(MAX_INT), Num(2 ^ IntBits)}

\* The temporal amounts the caller passes to from, plus and minus.
PeriodAmounts ==
    { ZERO,
      Canonical([kind |-> "Period", years |-> Num(1), months |-> Num(-12), days |-> Num(0),
                 ref |-> "arg"]),
      Canonical([kind |-> "Period", years |-> Num(MAX_INT), months |-> Num(1), days |-> Num(1),
                 ref |-> "arg"]),
      TemporalAmount(<<"Years", "Days">>, <<Num(1), Num(2)>>),
      TemporalAmount(<<"Months">>, <<Num(MAX_INT + 1)>>),
      TemporalAmount(<<"Days", "Hours">>, <<Num(1), Num(1)>>),
      Null }

\* The texts the caller parses: the examples of parse's documentation, the
\* text of the zero period, and texts that break one rule of the format.
PeriodTexts ==
    { "P2Y", "P3M", "P4W", "P5D", "P1Y2M3D", "P1Y2M3W4D", "P-1Y2M", "-P1Y2M", "P0D",
      "+P1D", "P+1Y-2D", "-P-1M", "P12M", "P010D",
      "", "P", "PT", "-P", "P1", "PY", "P-Y", "P1.5Y", "P1H", "1Y", "Y1P",
      "P1Yx", "xP1Y", " P1Y", "P1Y ", "P1Y2", "P1Y2Y", "P1D2M", "P1M2Y", "P1W2M", "PxP1Y",
      "p1y", "P1y", "p1Y", "-p1m", "P1w", "P1d", "p1y2m3w4d",
      "P99Y", "P-99M", "P1Y99D", "P9W", "P5W", "P31D1W", "P32D" }

InitPeriod ==
    /\ active = NewBuilder
    /\ calls = <<>>
    /\ berror = NoError
    /\ fmt = NoFormatter
    /\ parsePos = NewParsePosition(0)
    /\ call = [op |-> "_init", receiver |-> Null, args |-> <<>>, step |-> 0]
    /\ ret = Return(ZERO)

\* The period the caller holds: the one its last call returned.
HoldsPeriod == ret.value.kind = "Period"

Receiver == [ret.value EXCEPT !.ref = IF @ = "ZERO" THEN "ZERO" ELSE "this"]

\* One call: what was called, on what, with what, and what it gave.
PeriodCall(op, receiver, args, result) ==
    /\ call.step < MaxPeriodSteps
    /\ receiver.kind = "null" => call.step = 0
    /\ call' = [op |-> op, receiver |-> receiver, args |-> args, step |-> call.step + 1]
    /\ ret' = result
    /\ UNCHANGED <<active, calls, berror, fmt, parsePos>>

PeriodOf ==
    call.step = 0 /\ \E years \in PeriodNumbers, months \in PeriodNumbers, days \in PeriodNumbers :
        PeriodCall("of", Null, <<years, months, days>>, Period_of(years, months, days))

PeriodOfYears == call.step = 0 /\ \E years \in PeriodNumbers : PeriodCall("ofYears", Null, <<years>>, Period_ofYears(years))
PeriodOfMonths == call.step = 0 /\ \E months \in PeriodNumbers : PeriodCall("ofMonths", Null, <<months>>, Period_ofMonths(months))
PeriodOfWeeks == call.step = 0 /\ \E weeks \in PeriodNumbers : PeriodCall("ofWeeks", Null, <<weeks>>, Period_ofWeeks(weeks))
PeriodOfDays == call.step = 0 /\ \E days \in PeriodNumbers : PeriodCall("ofDays", Null, <<days>>, Period_ofDays(days))

PeriodFrom ==
    call.step = 0 /\ \E amount \in PeriodAmounts \cup (IF HoldsPeriod THEN {Receiver} ELSE {}) :
        PeriodCall("from", Null, <<amount>>, Period_from(amount))

PeriodParse ==
    call.step = 0 /\ \E text \in {Str(t) : t \in PeriodTexts} \cup {Null} :
        PeriodCall("parse", Null, <<text>>, Period_parse(text))

\* Period.parse(period.toString())
PeriodParseToString ==
    /\ HoldsPeriod /\ call.step < MaxPeriodSteps
    /\ PeriodCall("parseToString", Receiver, <<Str(Period_toString(Receiver))>>,
                  Period_parse(Str(Period_toString(Receiver))))

PeriodIsZero == HoldsPeriod /\ call.step < MaxPeriodSteps /\ PeriodCall("isZero", Receiver, <<>>, Return(Bool(Period_isZero(Receiver))))

PeriodToString == HoldsPeriod /\ call.step < MaxPeriodSteps /\ PeriodCall("toString", Receiver, <<>>, Return(Str(Period_toString(Receiver))))

PeriodWithYears == HoldsPeriod /\ call.step < MaxPeriodSteps /\ \E v \in PeriodArguments : PeriodCall("withYears", Receiver, <<v>>, Period_withYears(Receiver, v))
PeriodWithMonths == HoldsPeriod /\ call.step < MaxPeriodSteps /\ \E v \in PeriodArguments : PeriodCall("withMonths", Receiver, <<v>>, Period_withMonths(Receiver, v))
PeriodWithDays == HoldsPeriod /\ call.step < MaxPeriodSteps /\ \E v \in PeriodArguments : PeriodCall("withDays", Receiver, <<v>>, Period_withDays(Receiver, v))

PeriodPlus == HoldsPeriod /\ call.step < MaxPeriodSteps /\ \E a \in PeriodAmounts : PeriodCall("plus", Receiver, <<a>>, Period_plus(Receiver, a))
PeriodPlusYears == HoldsPeriod /\ call.step < MaxPeriodSteps /\ \E v \in PeriodArguments : PeriodCall("plusYears", Receiver, <<v>>, Period_plusYears(Receiver, v))
PeriodPlusMonths == HoldsPeriod /\ call.step < MaxPeriodSteps /\ \E v \in PeriodArguments : PeriodCall("plusMonths", Receiver, <<v>>, Period_plusMonths(Receiver, v))
PeriodPlusDays == HoldsPeriod /\ call.step < MaxPeriodSteps /\ \E v \in PeriodArguments : PeriodCall("plusDays", Receiver, <<v>>, Period_plusDays(Receiver, v))

PeriodMinus == HoldsPeriod /\ call.step < MaxPeriodSteps /\ \E a \in PeriodAmounts : PeriodCall("minus", Receiver, <<a>>, Period_minus(Receiver, a))
PeriodMinusYears == HoldsPeriod /\ call.step < MaxPeriodSteps /\ \E v \in PeriodArguments : PeriodCall("minusYears", Receiver, <<v>>, Period_minusYears(Receiver, v))
PeriodMinusMonths == HoldsPeriod /\ call.step < MaxPeriodSteps /\ \E v \in PeriodArguments : PeriodCall("minusMonths", Receiver, <<v>>, Period_minusMonths(Receiver, v))
PeriodMinusDays == HoldsPeriod /\ call.step < MaxPeriodSteps /\ \E v \in PeriodArguments : PeriodCall("minusDays", Receiver, <<v>>, Period_minusDays(Receiver, v))

PeriodMultipliedBy == HoldsPeriod /\ call.step < MaxPeriodSteps /\ \E v \in PeriodArguments : PeriodCall("multipliedBy", Receiver, <<v>>, Period_multipliedBy(Receiver, v))
PeriodNegated == HoldsPeriod /\ call.step < MaxPeriodSteps /\ PeriodCall("negated", Receiver, <<>>, Period_negated(Receiver))
PeriodNormalized == HoldsPeriod /\ call.step < MaxPeriodSteps /\ PeriodCall("normalized", Receiver, <<>>, Period_normalized(Receiver))

PeriodAddTo ==
    HoldsPeriod /\ call.step < MaxPeriodSteps /\ \E t \in {NewTemporal, Null} : PeriodCall("addTo", Receiver, <<t>>, Period_addTo(Receiver, t))

PeriodSubtractFrom ==
    HoldsPeriod /\ call.step < MaxPeriodSteps /\ \E t \in {NewTemporal, Null} : PeriodCall("subtractFrom", Receiver, <<t>>, Period_subtractFrom(Receiver, t))

NextPeriod ==
    \/ PeriodOf \/ PeriodOfYears \/ PeriodOfMonths \/ PeriodOfWeeks \/ PeriodOfDays
    \/ PeriodFrom \/ PeriodParse \/ PeriodParseToString \/ PeriodIsZero \/ PeriodToString
    \/ PeriodWithYears \/ PeriodWithMonths \/ PeriodWithDays
    \/ PeriodPlus \/ PeriodPlusYears \/ PeriodPlusMonths \/ PeriodPlusDays
    \/ PeriodMinus \/ PeriodMinusYears \/ PeriodMinusMonths \/ PeriodMinusDays
    \/ PeriodMultipliedBy \/ PeriodNegated \/ PeriodNormalized
    \/ PeriodAddTo \/ PeriodSubtractFrom

SpecPeriod == InitPeriod /\ [][NextPeriod]_vars

\* Every period a call returns is well formed.
PeriodTypeOK ==
    HoldsPeriod =>
        /\ ret.value.years.kind = "number" /\ ret.value.months.kind = "number"
        /\ ret.value.days.kind = "number"

-----------------------------------------------------------------------------
(* Period: the claims about its text form. *)

\* C21: for every period p, of positive, negative and zero amounts,
\* Period.parse(p.toString()) returns a period equal to p; the zero period
\* prints as 'P0D' and parses back to Period.ZERO.
C21_ParseOfToStringIsIdentity ==
    call.op = "parseToString" =>
        /\ ~Threw(ret)
        /\ Period_equals(ret.value, call.receiver)
        /\ call.receiver.ref = "ZERO" => call.args = <<Str("P0D")>> /\ ret.value = ZERO

C21_Witness ==
    /\ call.op = "parseToString"
    /\ call.receiver.years = Num(-1) /\ call.receiver.months = Num(15)
    /\ call.receiver.days = Num(MIN_INT)
    /\ Period_equals(ret.value, call.receiver)

C21_WitnessZero ==
    call.op = "parseToString" /\ call.receiver.ref = "ZERO" /\ ret.value = ZERO

\* Whether the whole of text is an optional sign, the letter P and at least
\* one number-and-suffix section, the sections in the order Y, M, W, D.
IsPeriodText(text) ==
    LET m == MatchAt(text, 0)
    IN  /\ m.kind # "null"
        /\ m.end = Len(text)
        /\ ~(IsNullish(m.year) /\ IsNullish(m.month) /\ IsNullish(m.week) /\ IsNullish(m.day))

\* C22: Period.parse(text) returns a period only when the whole text is an
\* optional sign, P and at least one section in the order Y, M, W, D; for
\* every other text it raises DateTimeParseException, and for a non-null text
\* nothing but a DateTimeParseException is thrown.
C22_ParseNeedsWholeText ==
    (call.op = "parse" /\ call.args[1].kind = "string") =>
        /\ ~Threw(ret) => IsPeriodText(call.args[1].s)
        /\ ~IsPeriodText(call.args[1].s) => Threw(ret)
        /\ Threw(ret) => ret.thrown.type = "DateTimeParseException"

\* The part of C22 that the code keeps: only a DateTimeParseException is
\* thrown for a non-null text, and a text with no P or no section is rejected.
C22_ParseThrowsOnlyParseException ==
    (call.op = "parse" /\ call.args[1].kind = "string") =>
        /\ Threw(ret) => ret.thrown.type = "DateTimeParseException"
        /\ call.args[1].s \in {"", "P", "PT", "1Y", "P-Y", "P99Y"} => Threw(ret)

C22_WitnessTrailing ==
    call.op = "parse" /\ call.args = <<Str("P1Yx")>> /\ ~Threw(ret) /\ ret.value.years = Num(1)

C22_WitnessOverflow ==
    /\ call.op = "parse" /\ call.args = <<Str("P99Y")>>
    /\ Threw(ret) /\ ret.thrown.type = "DateTimeParseException"
    /\ ret.thrown.cause.type = "ArithmeticException"

\* c.toLowerCase(), for the letters of a period text.
LowerChar(c) ==
    CASE c = "P" -> "p" [] c = "Y" -> "y" [] c = "M" -> "m" [] c = "W" -> "w"
      [] c = "D" -> "d" [] OTHER -> c

\* text.toLowerCase()
RECURSIVE ToLowerCase(_)
ToLowerCase(text) ==
    IF Len(text) = 0 THEN ""
    ELSE LowerChar(CharAt(text, 0)) \o ToLowerCase(Substring(text, 1, Len(text)))

\* The upper-case period texts the caller parses, and their lower-case forms.
UpperCaseTexts == {t \in PeriodTexts : IsPeriodText(t)}

\* C23: Period.parse accepts P and the suffixes Y, M, W, D in upper or lower
\* case: the lower-case form of a valid upper-case period text parses, to
\* the period the upper-case text parses to.
C23_LowerCaseParses ==
    (call.op = "parse" /\ call.args[1].kind = "string") =>
        \A t \in UpperCaseTexts :
            (call.args[1].s = ToLowerCase(t) /\ ~Threw(Period_parse(Str(t)))) =>
                /\ ~Threw(ret)
                /\ Period_equals(ret.value, Period_parse(Str(t)).value)

\* What the code does with a lower-case text: a text with no upper-case P,
\* or with no upper-case suffix after the P, is rejected.
C23_LowerCaseRejected ==
    (call.op = "parse" /\ call.args[1].kind = "string"
        /\ call.args[1].s \in {"p1y", "P1y", "p1Y", "-p1m", "P1w", "P1d", "p1y2m3w4d"}) =>
            Threw(ret) /\ ret.thrown.type = "DateTimeParseException"

C23_WitnessLowerCase ==
    /\ call.op = "parse" /\ call.args = <<Str("p1y2m3w4d")>>
    /\ "P1Y2M3W4D" \in UpperCaseTexts /\ ~Threw(Period_parse(Str("P1Y2M3W4D")))
    /\ Threw(ret)

-----------------------------------------------------------------------------
(* Period: the claims about its amounts. *)

\* Months within -11..11, and years and months not of opposite signs.
IsNormalized(p) ==
    /\ p.months.n \in -11 .. 11
    /\ ~(p.years.n > 0 /\ p.months.n < 0)
    /\ ~(p.years.n < 0 /\ p.months.n > 0)

C24_WitnessSame ==
    /\ call.op = "normalized"
    /\ call.receiver.years = Num(-1) /\ call.receiver.months = Num(-1)
    /\ ret.value = call.receiver /\ ret.value.ref = "this"

C24_WitnessOverflow ==
    /\ call.op = "normalized"
    /\ call.receiver.years = Num(MAX_INT) /\ call.receiver.months = Num(12)
    /\ Threw(ret)

\* The calls addTo or subtractFrom made on the temporal, in order.
TemporalCalls == ret.value.log

IsAdjustCall == call.op \in {"addTo", "subtractFrom"} /\ ~Threw(ret)

\* One call at most on years or months, one at most on days, the days last,
\* plus calls from addTo and minus calls from subtractFrom.
OrderedAdjustCalls ==
    /\ Len(TemporalCalls) <= 2
    /\ \A i \in 1 .. Len(TemporalCalls) :
           /\ TemporalCalls[i].op = (IF call.op = "addTo" THEN "plus" ELSE "minus")
           /\ TemporalCalls[i].unit = "Days" => i = Len(TemporalCalls)
           /\ TemporalCalls[i].unit # "Days" => i = 1
    /\ call.receiver.ref = "ZERO" => TemporalCalls = <<>>

\* C25: addTo and subtractFrom adjust years and months before days, call the
\* temporal at most once for years or months and at most once for days, never
\* with an amount of zero, and not at all for Period.ZERO.
C25_AdjustsNonZeroAmountsInOrder ==
    IsAdjustCall =>
        /\ OrderedAdjustCalls
        /\ \A i \in 1 .. Len(TemporalCalls) : TemporalCalls[i].amount # Num(0)

\* What the code keeps of C25: the order and the number of the calls, and an
\* amount of zero only for the total months of non-zero years and months
\* that cancel.
C25_AdjustsInOrder ==
    IsAdjustCall =>
        /\ OrderedAdjustCalls
        /\ \A i \in 1 .. Len(TemporalCalls) :
               TemporalCalls[i].amount = Num(0) =>
                   /\ TemporalCalls[i].unit = "Months"
                   /\ call.receiver.years # Num(0) /\ call.receiver.months # Num(0)
                   /\ Period_toTotalMonths(call.receiver) = Num(0)

C25_WitnessZeroAmount ==
    /\ call.op = "addTo"
    /\ call.receiver.years = Num(1) /\ call.receiver.months = Num(-12)
    /\ call.receiver.days = Num(3)
    /\ ~Threw(ret)
    /\ TemporalCalls = << [op |-> "plus", amount |-> Num(0), unit |-> "Months"],
                          [op |-> "plus", amount |-> Num(3), unit |-> "Days"] >>

AllZero(p) == p.years = Num(0) /\ p.months = Num(0) /\ p.days = Num(0)

\* C26: isZero() is true exactly when years, months and days are all zero,
\* for every period a factory or a method returns: a period of three zero
\* amounts is the Period.ZERO singleton, and no other period is.
C26_IsZeroExactlyWhenAllZero ==
    /\ HoldsPeriod =>
           /\ Period_isZero(ret.value) <=> AllZero(ret.value)
           /\ AllZero(ret.value) <=> ret.value = ZERO
    /\ call.op = "isZero" => ret.value = Bool(AllZero(call.receiver))

C26_Witness ==
    /\ call.op = "plusYears" /\ call.args = <<Num(-1)>>
    /\ call.receiver.years = Num(1) /\ call.receiver.ref = "this"
    /\ ret.value = ZERO /\ Period_isZero(ret.value)

C26_WitnessIsZero ==
    call.op = "isZero" /\ call.receiver.ref = "ZERO" /\ ret.value = Bool(TRUE)

C26_WitnessNotZero ==
    /\ call.op = "isZero" /\ call.receiver.years = Num(0) /\ call.receiver.months = Num(0)
    /\ call.receiver.days = Num(1) /\ ret.value = Bool(FALSE)

\* A number within the int range.
IsInt(v) == v.kind = "number" /\ v.n \in MIN_INT .. MAX_INT

\* C30: Period.of(years, months, days) raises an error or returns a period
\* whose years(), months() and days() are the three arguments; an argument
\* that is null or outside the int range is rejected with an error.
C30_OfKeepsArgumentsOrRaises ==
    call.op = "of" =>
        /\ \/ Threw(ret)
           \/ /\ Period_years(ret.value) = call.args[1]
              /\ Period_months(ret.value) = call.args[2]
              /\ Period_days(ret.value) = call.args[3]
        /\ (\E i \in 1 .. 3 : ~IsInt(call.args[i])) => Threw(ret)

\* What the code keeps of C30: ints are kept as they are, and a null or an
\* out-of-range argument is rejected unless all three arguments are 0 as
\* int32 values, when Period.ZERO is returned.
C30_OfKeepsInts ==
    call.op = "of" =>
        /\ (\A i \in 1 .. 3 : IsInt(call.args[i])) =>
               /\ ~Threw(ret)
               /\ Period_years(ret.value) = call.args[1]
               /\ Period_months(ret.value) = call.args[2]
               /\ Period_days(ret.value) = call.args[3]
        /\ (\E i \in 1 .. 3 : ~IsInt(call.args[i])) =>
               IF OrIsZero(call.args[1], call.args[2], call.args[3])
               THEN ret = Return(ZERO)
               ELSE Threw(ret)

C30_WitnessNull ==
    call.op = "of" /\ call.args = <<Null, Null, Null>> /\ ret = Return(ZERO)

C30_WitnessWrap ==
    call.op = "of" /\ call.args = <<Num(2 ^ IntBits), Num(0), Null>> /\ ret = Return(ZERO)

C30_WitnessRejected ==
    /\ call.op = "of" /\ call.args = <<Num(MAX_INT + 1), Num(0), Num(0)>>
    /\ Threw(ret) /\ ret.thrown.type = "ArithmeticException"

-----------------------------------------------------------------------------
(* The rollback specification: formatters A[B]C made by the calls A,        *)
(* optionalStart, B, optionalEnd, C, the formatters of the patterns with    *)
(* optional sections, and parse and parseUnresolved on them.                *)

RollbackPartsA == {<<>>, <<VYear>>, <<VMonth>>}

RollbackPartsB ==
    { <<CallLiteral("-"), VMonth2>>,
      <<CallLiteral("-"), VMonth2, CallLiteral("-"), VDay2>>,
      <<VMonth2, VDay2>>,
      <<VDay2>> }

RollbackPartsC == {<<>>, <<CallLiteral("-")>>, <<CallLiteral("x")>>, <<VDay2>>}

RollbackPatterns == {"uuuu[-MM[-dd]]", "uuuu[-MM-dd]"}

RollbackCallSeqs ==
    { A \o <<CallOptionalStart>> \o B \o <<CallOptionalEnd>> \o C :
          A \in RollbackPartsA, B \in RollbackPartsB, C \in RollbackPartsC }
    \cup { <<CallPattern(p)>> : p \in RollbackPatterns }

RollbackTexts ==
    { "2012", "2012-06", "2012-06-30", "2012-06-3", "2012-0", "2012x", "2012-06x",
      "20120630", "201206", "1-06", "123", "12", "" }

InitRollback == InitOver(RollbackCallSeqs)

Parse1Rollback == Parse1Over(RollbackTexts, Null)

\* Each parseUnresolved is made on a new ParsePosition.
ParseUnresolvedRollback ==
    /\ call.op # "parseUnresolved"
    /\ parsePos.errorIndex = -1
    /\ ParseUnresolvedOver(RollbackTexts)

NextRollback == NewPosition \/ Parse1Rollback \/ ParseUnresolvedRollback

SpecRollback == InitRollback /\ [][NextRollback]_vars

\* Whether the formatter was made with an optionalStart and an optionalEnd.
HasGroup == \E i \in 1 .. Len(calls) : calls[i].op = "optionalStart"

RollbackStart == CHOOSE i \in 1 .. Len(calls) : calls[i].op = "optionalStart"

RollbackEnd == CHOOSE i \in 1 .. Len(calls) : calls[i].op = "optionalEnd"

\* The calls before the group, those of the group and those after it.
GroupA == SubSeq(calls, 1, RollbackStart - 1)

GroupB == SubSeq(calls, RollbackStart + 1, RollbackEnd - 1)

GroupC == SubSeq(calls, RollbackEnd + 1, Len(calls))

\* The nodes before the group, run from the caller's index.
BeforeGroup(text, index) == RootParse(Built(GroupA), text, index)

\* The interior of the group, run where and with what the group is entered.
Interior(text, index) ==
    LET ra == BeforeGroup(text, index)
    IN  ParseNode(Built(GroupB).printerParser, ra.parsed, text, ra.pos)

\* The nodes after the group, run from the position pos with the bindings parsed.
AfterTheGroup(parsed, text, pos) == ParseNode(Built(GroupC).printerParser, parsed, text, pos)

\* The group is entered and its interior fails.
InteriorFails(text, index) ==
    /\ BeforeGroup(text, index).pos >= 0
    /\ Interior(text, index).pos < 0

\* The fields the three texts of the pattern 'uuuu[-MM[-dd]]' bind.
PatternBindings(text) ==
    CASE text = "2012"       -> [f \in {"Year"} |-> 2012]
      [] text = "2012-06"    -> [f \in {"Year", "MonthOfYear"} |->
                                    IF f = "Year" THEN 2012 ELSE 6]
      [] text = "2012-06-30" -> [f \in {"Year", "MonthOfYear", "DayOfMonth"} |->
                                    CASE f = "Year" -> 2012 [] f = "MonthOfYear" -> 6
                                      [] f = "DayOfMonth" -> 30]

C27_WitnessErrorAfterGroup ==
    /\ calls = <<VYear, CallOptionalStart, CallLiteral("-"), VMonth2, CallOptionalEnd,
                 CallLiteral("x")>>
    /\ call.op = "parseUnresolved" /\ call.index = 0 /\ call.text = "2012-0"
    /\ Interior(call.text, 0).pos = Complement(5)
    /\ ret.value = Null
    /\ parsePos.errorIndex = 4

\* The pattern parses the longest of its three texts.
C27_WitnessPattern ==
    /\ calls = <<CallPattern("uuuu[-MM[-dd]]")>>
    /\ call.op = "parse1" /\ call.text = "2012-06-30"
    /\ ret.thrown = NoError
    /\ ret.value.fieldValues["DayOfMonth"] = 30

-----------------------------------------------------------------------------
(* The follower specification: formatters of a variable-width Value and a   *)
(* ReducedValue of one width appended directly after it, and                *)
(* parseUnresolved on them.                                                 *)

FollowerValueCalls == {VMonth, CallValue("DayOfMonth", 1, 3, "NOT_NEGATIVE")}

FollowerBases == {2000, 1950}

FollowerCallSeqs ==
    { <<v, CallReduced("Year", w, w, base)>> :
          v \in FollowerValueCalls, w \in 1 .. MaxReducedWidth, base \in FollowerBases }

FollowerTexts ==
    { "123", "0123", "12", "1", "1234", "12345", "123456", "123x", "-123", "-12", "x12", "1x23",
      "" }

InitFollower == InitOver(FollowerCallSeqs)

\* Each parseUnresolved is made on a new ParsePosition, as the test makes it.
ParseUnresolvedFollower ==
    /\ call.op # "parseUnresolved"
    /\ parsePos.errorIndex = -1
    /\ ParseUnresolvedOver(FollowerTexts)

NextFollower == NewPosition \/ ParseUnresolvedFollower

SpecFollower == InitFollower /\ [][NextFollower]_vars

\* C28: a ReducedValue of width w appended directly after a variable-width
\* Value(min, max) is a fixed-width follower of it: of a run of L digits, at
\* most max + w long, the Value takes the first L - w and the ReducedValue
\* the last w, placed in the window of its base; a run shorter than min + w
\* fails at the start index.  Value(MonthOfYear,1,2,NORMAL)
\* ReducedValue(Year,2,2,2000) on '123' binds MonthOfYear = 1 and Year = 2023.
C28_ReducedValueFollows ==
    call.op = "parseUnresolved" =>
        LET v      == calls[1]
            r      == calls[2]
            w      == r.width
            p      == call.index
            signed == AcceptsSign(v.signStyle, CharAt(call.text, p))
            q      == IF signed THEN p + 1 ELSE p
            L      == DigitRun(call.text, q, v.maxWidth + w)
            head   == DigitsValue(call.text, q, L - w)
            tail   == DigitsValue(call.text, q + L - w, w)
        IN  /\ RootNodes[1].subsequentWidth = w
            /\ IF L >= v.minWidth + w
               THEN /\ ret.value # Null
                    /\ parsePos.index = q + L
                    /\ ret.value.fieldValues[v.field] =
                           (IF signed /\ CharAt(call.text, p) = "-" THEN -head ELSE head)
                    /\ ret.value.fieldValues[r.field] = ReducedWindow(tail, w, r.baseValue)
                    /\ ret.value.fieldValues[r.field] % Pow10(w) = tail
               ELSE /\ ret.value = Null
                    /\ parsePos.errorIndex = p
            /\ (/\ calls = <<VMonth, CallReduced("Year", 2, 2, 2000)>>
                /\ call.text = "123" /\ call.index = 0) =>
                   /\ ret.value # Null
                   /\ ret.value.fieldValues["MonthOfYear"] = 1
                   /\ ret.value.fieldValues["Year"] = 2023

\* The example of the test: '123' is month 1 and year 2023.
C28_Witness ==
    /\ calls = <<VMonth, CallReduced("Year", 2, 2, 2000)>>
    /\ call.op = "parseUnresolved" /\ call.index = 0 /\ call.text = "123"
    /\ RootNodes[1].subsequentWidth = 2
    /\ ret.value # Null
    /\ ret.value.fieldValues["MonthOfYear"] = 1
    /\ ret.value.fieldValues["Year"] = 2023
    /\ parsePos.index = 3

\* A run of two digits is too short for the month and a year of two digits.
C28_WitnessTooShort ==
    /\ calls = <<VMonth, CallReduced("Year", 2, 2, 2000)>>
    /\ call.op = "parseUnresolved" /\ call.index = 0 /\ call.text = "12"
    /\ ret.value = Null
    /\ parsePos.errorIndex = 0

-----------------------------------------------------------------------------
(* The marking specification: appendValue in its fixed-width and            *)
(* variable-width forms and appendLiteral on a new builder, in any order,   *)
(* toFormatter among them, and parseUnresolved on the formatter just made.  *)

MarkValueCalls == {VMonth, VYear, VMonth2, VDay2}

MarkTexts == {"123", "0123", "20090630", "2009-0630", "1230630", "12"}

MarkAppendValue == \E c \in MarkValueCalls : BuilderCall(c)

MarkAppendLiteral == BuilderCall(CallLiteral("-"))

\* formatter.parseUnresolved(text, new ParsePosition(0)) on the new formatter.
MarkParseUnresolved ==
    /\ call.op = "toFormatter"
    /\ ParseUnresolvedOver(MarkTexts)

NextMark == MarkAppendValue \/ MarkAppendLiteral \/ ToFormatter \/ MarkParseUnresolved

SpecMark == InitBuild /\ [][NextMark]_vars

\* The nodes of the builder's frame, and the index of the node marked as the
\* active Value (0 when none is).
MarkNodes == Top(active).printerParsers

MarkedNode == Top(active).valueParserIndex

IsVariableCall(c) == c.op = "appendValue" /\ c.minWidth < c.maxWidth

IsFixedCall(c) ==
    c.op = "appendValue" /\ c.minWidth = c.maxWidth /\ c.signStyle = "NOT_NEGATIVE"

\* The last call was an appendValue and the one before it is prev.
LastCall == calls[Len(calls)]

PreviousCall == calls[Len(calls) - 1]

\* A variable-width Value appended directly after a fixed-width Value is the
\* marked node.
VariableAfterFixedIsMarked ==
    (/\ call.op = "appendValue"
     /\ Len(calls) >= 2
     /\ IsFixedCall(PreviousCall)
     /\ IsVariableCall(LastCall)) =>
        /\ MarkedNode = Len(MarkNodes)
        /\ MarkNodes[MarkedNode].field = LastCall.field
        /\ MarkNodes[MarkedNode].subsequentWidth = 0

\* C29 as stated: a variable-width Value appended after a fixed-width Value
\* is the marked node, and a fixed-width Value appended after a
\* variable-width Value closes the group: the variable-width Value reserves
\* the width of that one follower and of no later node.
C29_FixedValueClosesGroup ==
    /\ VariableAfterFixedIsMarked
    /\ \A i \in 1 .. Len(MarkNodes) - 1 :
           (/\ MarkNodes[i].kind = "Value" /\ MarkNodes[i].minWidth < MarkNodes[i].maxWidth
            /\ IsFixedWidth(MarkNodes[i + 1])) =>
               MarkNodes[i].subsequentWidth = MarkNodes[i + 1].maxWidth

\* C29, amended: a variable-width Value appended after a fixed-width Value is
\* the marked node; a fixed-width Value appended after a variable-width Value
\* joins its group, which stays open: the variable-width Value stays marked
\* and reserves the total width of all the fixed-width Values that directly
\* follow it; the group is closed by a variable-width Value, which becomes
\* the marked node, or by a node that is not a number.
\* Value(Year,4,10,EXCEEDS_PAD)Value(MonthOfYear,2)Value(DayOfMonth,2) parses
\* '20090630' as 2009, 6 and 30.
C29_FixedValueJoinsGroup ==
    /\ VariableAfterFixedIsMarked
    /\ \A i \in 1 .. Len(MarkNodes) :
           (MarkNodes[i].kind = "Value" /\ MarkNodes[i].minWidth < MarkNodes[i].maxWidth) =>
               LET j == GroupEnd(MarkNodes, i)
               IN  /\ MarkNodes[i].subsequentWidth =
                          FollowersWidth(SubSeq(MarkNodes, i, j), j - i + 1)
                   /\ j = Len(MarkNodes) => MarkedNode = i
    /\ (call.op = "appendValue" /\ IsFixedCall(LastCall) /\ MarkedNode > 0) =>
           /\ MarkedNode < Len(MarkNodes)
           /\ \A k \in MarkedNode + 1 .. Len(MarkNodes) : IsFixedWidth(MarkNodes[k])
    /\ (call.op = "appendValue" /\ IsVariableCall(LastCall)) => MarkedNode = Len(MarkNodes)
    /\ call.op = "appendLiteral" => MarkedNode = 0
    /\ (/\ call.op = "parseUnresolved" /\ call.text = "20090630"
        /\ calls = <<VYear, VMonth2, VDay2, CallToFormatter>>) =>
           /\ ret.value # Null
           /\ ret.value.fieldValues["Year"] = 2009
           /\ ret.value.fieldValues["MonthOfYear"] = 6
           /\ ret.value.fieldValues["DayOfMonth"] = 30

\* The group of the test: the year stays marked after the month and reserves
\* the four digits of the month and the day.
C29_Witness ==
    /\ calls = <<VYear, VMonth2, VDay2>>
    /\ call.op = "appendValue"
    /\ MarkedNode = 1
    /\ MarkNodes[1].subsequentWidth = 4

\* A variable-width Value appended after a fixed-width one becomes the marked node.
C29_WitnessVariableAfterFixed ==
    /\ calls = <<VYear, VMonth2, VMonth>>
    /\ call.op = "appendValue"
    /\ MarkedNode = 3
    /\ MarkNodes[1].subsequentWidth = 2

\* The formatter of the test parses '20090630'.
C29_WitnessParse ==
    /\ calls = <<VYear, VMonth2, VDay2, CallToFormatter>>
    /\ call.op = "parseUnresolved" /\ call.text = "20090630"
    /\ ret.value # Null
    /\ ret.value.fieldValues["Year"] = 2009

====
